---------------------------- MODULE Spec2Model ----------------------------
(***************************************************************************)
(* The compatibility matching engine of pp_vinculacion                     *)
(* (app/routers/matching.py): the seven factor scorers, the aggregator,    *)
(* perform_matching, and the request handlers that run bulk matching,      *)
(* list matches, reset matches, evaluate one pair and give the radar data  *)
(* of a match, over the vacancies, students and matches collections        *)
(* (app/database.py).                                                      *)
(*                                                                         *)
(* Every `await` on a collection is one step of a handler, so two         *)
(* requests served by the same event loop interleave at those points.     *)
(*                                                                         *)
(* Strings that the code lowercases, splits or searches are sequences of  *)
(* one-character strings.  Scores are exact fractions of Scale; a         *)
(* percentage is an integer number of hundredths of a percent.            *)
(***************************************************************************)
EXTENDS Integers, Sequences, FiniteSets, TLC

(***************************************************************************)
(* Strings                                                                 *)
(***************************************************************************)
\* the upper-case letters and their lower-case forms
UpperCase ==
    {"A","B","C","D","E","F","G","H","I","J","K","L","M",
     "N","O","P","Q","R","S","T","U","V","W","X","Y","Z"}

LowerCase ==
    [A |-> "a", B |-> "b", C |-> "c", D |-> "d", E |-> "e", F |-> "f", G |-> "g",
     H |-> "h", I |-> "i", J |-> "j", K |-> "k", L |-> "l", M |-> "m", N |-> "n",
     O |-> "o", P |-> "p", Q |-> "q", R |-> "r", S |-> "s", T |-> "t", U |-> "u",
     V |-> "v", W |-> "w", X |-> "x", Y |-> "y", Z |-> "z"]

\* str.lower() on one character ("I'" and "i'" stand for the accented i).
LowerChar(c) ==
    IF c \in UpperCase THEN LowerCase[c]
    ELSE IF c = "I'" THEN "i'"
    ELSE c

\* str.lower()
Lower(s) == [k \in DOMAIN s |-> LowerChar(s[k])]

\* [x.lower() for x in xs]
LowerAll(xs) == [k \in DOMAIN xs |-> Lower(xs[k])]

\* a membership test that is content with x inside an element of xs
InElement(x, xs) ==
    \E k \in DOMAIN xs :
        \E i \in 0..(Len(xs[k]) - Len(x)) : SubSeq(xs[k], i + 1, i + Len(x)) = x

\* `x in xs` for a list xs
InList(x, xs) == \E k \in DOMAIN xs : xs[k] = x

\* `w in s` for strings: w occurs in s as a substring
Contains(s, w) ==
    \E k \in 0..(Len(s) - Len(w)) : SubSeq(s, k + 1, k + Len(w)) = w

\* str.split(): the maximal runs of non-blank characters, in order
RECURSIVE SplitFrom(_, _, _)
SplitFrom(s, k, word) ==
    IF k > Len(s)
    THEN IF word = << >> THEN << >> ELSE <<word>>
    ELSE IF s[k] = " "
         THEN (IF word = << >> THEN << >> ELSE <<word>>) \o SplitFrom(s, k + 1, << >>)
         ELSE SplitFrom(s, k + 1, Append(word, s[k]))

Split(s) == SplitFrom(s, 1, << >>)

(***************************************************************************)
(* Numbers: a score in [0,1] is the integer score * Scale; the lists and   *)
(* tiers of the model only produce fractions whose denominator divides     *)
(* Scale.  A percentage is kept in hundredths (80.0 is 8000).              *)
(***************************************************************************)
Scale == 120

\* an absent number or threshold
None == 0 - 1

\* a history of bulk runs that is not one of completed runs on unchanged
\* profiles
Void == 0 - 2

One == Scale

\* n / d as a score
Ratio(n, d) == (n * Scale) \div d

\* a decimal literal with one place: Tenths(7) is 0.7
Tenths(n) == (n * Scale) \div 10

\* round(n / d) to an integer, ties to even, as Python's round
RoundHalfEven(n, d) ==
    LET q == n \div d
        r == n % d
    IN  IF 2 * r < d THEN q
        ELSE IF 2 * r > d THEN q + 1
        ELSE IF q % 2 = 0 THEN q ELSE q + 1

\* the number of indices of a list that satisfy a test
RECURSIVE CountUpTo(_, _)
CountUpTo(hit, k) ==
    IF k = 0 THEN 0 ELSE CountUpTo(hit, k - 1) + (IF hit[k] THEN 1 ELSE 0)

(***************************************************************************)
(* Factor scorers                                                          *)
(***************************************************************************)
\* a skills scorer that looks at the student's list first
calculate_skills_match_student_first(student_skills, required_skills) ==
    IF student_skills = << >> THEN 0
    ELSE IF required_skills = << >> THEN One
    ELSE LET student_skills_lower == LowerAll(student_skills)
             required_skills_lower == LowerAll(required_skills)
             hit == [k \in DOMAIN required_skills_lower |->
                        InList(required_skills_lower[k], student_skills_lower)]
             matches == CountUpTo(hit, Len(required_skills_lower))
         IN  Ratio(matches, Len(required_skills_lower))

calculate_skills_match(student_skills, required_skills) ==
    IF required_skills = << >> THEN One
    ELSE IF student_skills = << >> THEN 0
    ELSE LET student_skills_lower == LowerAll(student_skills)
             required_skills_lower == LowerAll(required_skills)
             hit == [k \in DOMAIN required_skills_lower |->
                        InList(required_skills_lower[k], student_skills_lower)]
             matches == CountUpTo(hit, Len(required_skills_lower))
         IN  Ratio(matches, Len(required_skills_lower))

\* a level_order that lacks the highest level
level_order_no_native(nivel) ==
    CASE nivel = "A1" -> 1
      [] nivel = "A2" -> 2
      [] nivel = "B1" -> 3
      [] nivel = "B2" -> 4
      [] nivel = "C1" -> 5
      [] nivel = "C2" -> 6
      [] OTHER -> 0

\* level_order.get(nivel, 0)
level_order(nivel) ==
    CASE nivel = "A1" -> 1
      [] nivel = "A2" -> 2
      [] nivel = "B1" -> 3
      [] nivel = "B2" -> 4
      [] nivel = "C1" -> 5
      [] nivel = "C2" -> 6
      [] nivel = "Nativo" -> 7
      [] OTHER -> 0

\* a language scorer without the break: every entry of the student that
\* satisfies a requirement counts
calculate_language_match_all(student_langs, required_langs) ==
    IF required_langs = << >> THEN One
    ELSE IF student_langs = << >> THEN 0
    ELSE LET pairs == {<<k, j>> \in (DOMAIN required_langs) \X (DOMAIN student_langs) :
                        /\ Lower(required_langs[k].idioma) = Lower(student_langs[j].idioma)
                        /\ level_order(student_langs[j].nivel)
                               >= level_order(required_langs[k].nivel_minimo)}
         IN  Ratio(Cardinality(pairs), Len(required_langs))

calculate_language_match(student_langs, required_langs) ==
    IF required_langs = << >> THEN One
    ELSE IF student_langs = << >> THEN 0
    ELSE LET hit == [k \in DOMAIN required_langs |->
                        \E j \in DOMAIN student_langs :
                            /\ Lower(required_langs[k].idioma) = Lower(student_langs[j].idioma)
                            /\ level_order(student_langs[j].nivel)
                                   >= level_order(required_langs[k].nivel_minimo)]
             matches == CountUpTo(hit, Len(required_langs))
         IN  Ratio(matches, Len(required_langs))

\* a mapping of every tier to the least number of years it names
experience_mapping_least(required_experience) ==
    CASE required_experience = "Sin experiencia" -> 0
      [] required_experience = "Menos de 1 ano" -> 0
      [] required_experience = "1-2 anos" -> 2
      [] required_experience = "2-3 anos" -> 4
      [] required_experience = "3-5 anos" -> 6
      [] required_experience = "Mas de 5 anos" -> 10
      [] OTHER -> 0

\* experience_mapping.get(required_experience, 0), in half years
experience_mapping(required_experience) ==
    CASE required_experience = "Sin experiencia" -> 0
      [] required_experience = "Menos de 1 ano" -> 1
      [] required_experience = "1-2 anos" -> 3
      [] required_experience = "2-3 anos" -> 5
      [] required_experience = "3-5 anos" -> 8
      [] required_experience = "Mas de 5 anos" -> 12
      [] OTHER -> 0

\* an experience scorer without the floor: the ratio also for no entry
calculate_experience_match_no_floor(student_experience, required_experience) ==
    LET required_years == experience_mapping(required_experience)
        student_years == student_experience
    IN  IF required_years = 0 THEN One
        ELSE IF student_years >= required_years THEN One
        ELSE Ratio(student_years, required_years)

\* student_experience is the number of entries of the list: only len() is used
calculate_experience_match(student_experience, required_experience) ==
    LET required_years == experience_mapping(required_experience)
        student_years == student_experience      \* len * 0.5, in half years
    IN  IF required_years = 0 THEN One
        ELSE IF student_years >= required_years THEN One
        ELSE IF student_years > 0 THEN Ratio(student_years, required_years)
        ELSE Tenths(5)

calculate_career_match(student_career, required_careers) ==
    IF required_careers = << >> THEN One
    ELSE LET student_career_lower == Lower(student_career)
             required_careers_lower == LowerAll(required_careers)
         IN  IF InList(student_career_lower, required_careers_lower) THEN One
             ELSE IF \E k \in DOMAIN required_careers_lower :
                        \E j \in DOMAIN Split(required_careers_lower[k]) :
                            Contains(student_career_lower,
                                     Split(required_careers_lower[k])[j])
                  THEN Tenths(7)
                  ELSE Tenths(3)

calculate_semester_match(student_semester, required_semester) ==
    IF required_semester = None \/ required_semester = 0 THEN One
    ELSE IF student_semester >= required_semester THEN One
    ELSE LET diff == required_semester - student_semester
         IN  IF diff <= 1 THEN Tenths(8)
             ELSE IF diff <= 2 THEN Tenths(6)
             ELSE Tenths(3)

hibrido_acento == <<"h","i'","b","r","i","d","o">>

hibrido == <<"h","i","b","r","i","d","o">>

calculate_modality_match(student_modality, vacancy_modality) ==
    IF student_modality = << >> \/ vacancy_modality = << >> THEN One
    ELSE LET student_mod == Lower(student_modality)
             vacancy_mod == Lower(vacancy_modality)
         IN  IF student_mod = vacancy_mod THEN One
             ELSE IF Contains(student_mod, hibrido_acento) \/ Contains(student_mod, hibrido)
                  THEN Tenths(9)
             ELSE IF Contains(vacancy_mod, hibrido_acento) \/ Contains(vacancy_mod, hibrido)
                  THEN Tenths(9)
             ELSE Tenths(5)

(***************************************************************************)
(* Aggregator and radar projection                                         *)
(***************************************************************************)
Fields ==
    <<"habilidades_tecnicas", "habilidades_blandas", "idiomas", "experiencia",
      "carrera", "semestre", "modalidad">>

\* weights with those of the technical and the soft skills exchanged
weights_swapped ==
    [habilidades_tecnicas |-> 15, habilidades_blandas |-> 30, idiomas |-> 15,
     experiencia |-> 15, carrera |-> 15, semestre |-> 5, modalidad |-> 5]

\* the weights of calculate_overall_match, in hundredths
weights ==
    [habilidades_tecnicas |-> 30, habilidades_blandas |-> 15, idiomas |-> 15,
     experiencia |-> 15, carrera |-> 15, semestre |-> 5, modalidad |-> 5]

RECURSIVE WeightedSum(_, _)
WeightedSum(desglose, k) ==
    IF k = 0 THEN 0
    ELSE WeightedSum(desglose, k - 1) + desglose[Fields[k]] * weights[Fields[k]]

\* round(total * 100, 2), in hundredths of a percent
calculate_overall_match(desglose) ==
    RoundHalfEven(WeightedSum(desglose, Len(Fields)) * 100, Scale)

\* round(score * 100) without the number of decimals: a whole percentage
RadarValueWhole(score) == RoundHalfEven(score * 100, Scale) * 10

\* round(score * 100, 1), in tenths of a percent
RadarValue(score) == RoundHalfEven(score * 1000, Scale)

\* the labels of the radar chart, in the order of the handlers (without the
\* accent of "Tecnicas")
categories ==
    <<"Habilidades Tecnicas", "Habilidades Blandas", "Idiomas", "Experiencia",
      "Carrera", "Semestre", "Modalidad">>

\* the radar_data dict built by the handlers: label -> value
RadarData(desglose) ==
    ("Habilidades Tecnicas" :> RadarValue(desglose.habilidades_tecnicas))
    @@ ("Habilidades Blandas" :> RadarValue(desglose.habilidades_blandas))
    @@ ("Idiomas" :> RadarValue(desglose.idiomas))
    @@ ("Experiencia" :> RadarValue(desglose.experiencia))
    @@ ("Carrera" :> RadarValue(desglose.carrera))
    @@ ("Semestre" :> RadarValue(desglose.semestre))
    @@ ("Modalidad" :> RadarValue(desglose.modalidad))

(***************************************************************************)
(* Bounds of the model                                                     *)
(***************************************************************************)
\* requests served in one behaviour (requests refused by a check are not
\* counted: they change nothing)
MaxRequests == 2

\* the same, in the behaviours that also hold refused requests
MaxErrRequests == 1

\* the same, in the behaviours that also hold profile and vacancy changes
MaxEnvRequests == 1

\* profile and vacancy changes made by students and companies in one behaviour
MaxChanges == 1

\* single evaluations served in a behaviour of SpecCalc
MaxCalcRequests == 2

\* requests served in a behaviour of SpecStore, after the bulk run that
\* filled the store
MaxStoreRequests == 2

\* requests served in a behaviour of SpecDrift, after the bulk run that
\* filled the store
MaxDriftRequests == 1

\* advances of the clock between the steps of requests
MaxTicks == 1

\* bulk runs served in a behaviour of SpecFail
MaxFailRequests == 1

\* resets and bulk runs served in a behaviour of SpecReset, after the bulk
\* runs that filled the store
MaxResetRequests == 2

\* bulk runs served in a behaviour of SpecHidden
MaxHiddenRequests == 2

\* listings served in a behaviour of SpecList, after the bulk runs that
\* filled the store
MaxListRequests == 2

(***************************************************************************)
(* Documents                                                               *)
(***************************************************************************)
\* find_one's None
NoDoc == [none |-> TRUE]

Python == <<"P","y","t","h","o","n">>
React == <<"R","e","a","c","t">>
Django == <<"D","j","a","n","g","o">>
Java == <<"J","a","v","a">>
Rust == <<"R","u","s","t">>
Liderazgo == <<"L","i","d","e","r","a","z","g","o">>
English == <<"E","n","g","l","i","s","h">>
IngSoftware == <<"I","n","g"," ","S","o","f","t","w","a","r","e">>
IngCivil == <<"I","n","g"," ","C","i","v","i","l">>
Remoto == <<"R","e","m","o","t","o">>
Hibrido == <<"H","i'","b","r","i","d","o">>
Presencial == <<"P","r","e","s","e","n","c","i","a","l">>
JavaScript == <<"J","a","v","a","S","c","r","i","p","t">>
French == <<"F","r","e","n","c","h">>

VacancyIds == {"v1", "v2"}

\* "v0" is a well-formed identifier of no vacancy, "bad" is no ObjectId
\* ObjectId.is_valid
ObjectId_is_valid(vacancy_id) == vacancy_id # "bad"

\* the students collection in natural (insertion) order
StudentOrder == <<"s1", "s2", "s3", "s4">>

Matriculas == {StudentOrder[k] : k \in DOMAIN StudentOrder}

\* "s0" is the matricula of no student

\* The fields of a vacancy that no modelled handler writes: its requirements.
\* v1 asks for something on every dimension but soft skills, v2 for nothing.
VacancyRequirements ==
    [v \in VacancyIds |->
        IF v = "v1"
        THEN [habilidades_tecnicas_requeridas |-> <<Python, React>>,
              habilidades_blandas_requeridas |-> << >>,
              idiomas_requeridos |-> <<[idioma |-> English, nivel_minimo |-> "B2"]>>,
              experiencia_minima |-> "1-2 anos",
              carrera_requerida |-> <<IngSoftware>>,
              semestre_minimo |-> 7,
              modalidad |-> Remoto]
        ELSE [habilidades_tecnicas_requeridas |-> << >>,
              habilidades_blandas_requeridas |-> << >>,
              idiomas_requeridos |-> << >>,
              experiencia_minima |-> "Sin experiencia",
              carrera_requerida |-> << >>,
              semestre_minimo |-> 0,
              modalidad |-> << >>]]

\* The fields of a student profile that no modelled handler writes.  On v1,
\* s1 scores 100.00, s2 exactly 80.00 and s3 60.00 (65.00 with a second
\* experience entry); s4 has fewer than three technical skills, so
\* check_profile_completeness left perfil_completo false.
StudentProfiles ==
    [s \in Matriculas |->
        CASE s = "s1" ->
               [habilidades_tecnicas |-> <<Lower(Python), Lower(React), <<"s","q","l">>>>,
                habilidades_blandas |-> <<Liderazgo>>,
                idiomas |-> <<[idioma |-> Lower(English), nivel |-> "C1"]>>,
                carrera |-> Lower(IngSoftware), semestre |-> 8,
                modalidad_preferida |-> Remoto]
          [] s = "s2" ->
               [habilidades_tecnicas |-> <<Lower(Python), Django, <<"s","q","l">>>>,
                habilidades_blandas |-> <<Liderazgo>>,
                idiomas |-> <<[idioma |-> English, nivel |-> "C1"]>>,
                carrera |-> IngCivil, semestre |-> 8,
                modalidad_preferida |-> Hibrido]
          [] s = "s3" ->
               [habilidades_tecnicas |-> <<Java, Rust, <<"G","o">>>>,
                habilidades_blandas |-> <<Liderazgo>>,
                idiomas |-> <<[idioma |-> English, nivel |-> "B2"]>>,
                carrera |-> IngSoftware, semestre |-> 7,
                modalidad_preferida |-> Lower(Remoto)]
          [] OTHER ->
               [habilidades_tecnicas |-> <<Python, React>>,
                habilidades_blandas |-> <<Liderazgo>>,
                idiomas |-> <<[idioma |-> English, nivel |-> "C2"]>>,
                carrera |-> IngSoftware, semestre |-> 9,
                modalidad_preferida |-> Remoto]]

\* Vacancy documents for the evaluation alone: on every dimension no
\* requirement or one, required lists with an entry twice, a level and a
\* tier that the scorers do not know, a minimum semester that is absent
SampleVacancies ==
    [habilidades_tecnicas_requeridas : {<< >>, <<Python, Python>>},
     habilidades_blandas_requeridas : {<< >>, <<Liderazgo>>},
     idiomas_requeridos :
         {<< >>,
          <<[idioma |-> English, nivel_minimo |-> "B2"],
            [idioma |-> English, nivel_minimo |-> "B2"]>>,
          <<[idioma |-> English, nivel_minimo |-> "Z9"]>>},
     experiencia_minima : {"Sin experiencia", "1-2 anos", "otro"},
     carrera_requerida : {<< >>, <<IngSoftware>>},
     semestre_minimo : {0, None, 7},
     modalidad : {<< >>, Remoto}]

\* Student documents for the evaluation alone: on every dimension no data
\* or some, a language entered twice
SampleStudents ==
    [habilidades_tecnicas : {<< >>, <<Lower(Python)>>},
     habilidades_blandas : {<< >>},
     idiomas :
         {<< >>,
          <<[idioma |-> Lower(English), nivel |-> "C1"]>>,
          <<[idioma |-> Lower(English), nivel |-> "C1"],
            [idioma |-> English, nivel |-> "C2"]>>},
     experiencia_laboral : {0, 1, 3},
     carrera : {<< >>, IngCivil},
     semestre : {0, 6},
     modalidad_preferida : {<< >>, Hibrido}]

\* A vacancy that asks for nothing and a student who has entered nothing
BaseVacancy ==
    [habilidades_tecnicas_requeridas |-> << >>,
     habilidades_blandas_requeridas |-> << >>,
     idiomas_requeridos |-> << >>,
     experiencia_minima |-> "Sin experiencia",
     carrera_requerida |-> << >>,
     semestre_minimo |-> 0,
     modalidad |-> << >>]

BaseStudent ==
    [habilidades_tecnicas |-> << >>,
     habilidades_blandas |-> << >>,
     idiomas |-> << >>,
     experiencia_laboral |-> 0,
     carrera |-> << >>,
     semestre |-> 0,
     modalidad_preferida |-> << >>]

\* the most entries of experience a sample student has: one more than the
\* highest tier asks for, at half a year each
MaxEntries == 13

\* the levels of a language entry and a value that is none of them
Levels == {"A1", "A2", "B1", "B2", "C1", "C2", "Nativo", "Z9"}

\* Pairs of documents for one factor at a time: the two base documents with
\* the fields of one dimension replaced on both sides.  Skills in other
\* case, in other order, as a substring of one another; languages in other
\* case at every level; every tier against 0..MaxEntries entries; careers
\* with and without a common word; semesters around the minimum; modalities.
FactorCases ==
    {[vacancy |-> [BaseVacancy EXCEPT !.habilidades_tecnicas_requeridas = r],
      student |-> [BaseStudent EXCEPT !.habilidades_tecnicas = e]] :
        r \in {<< >>, <<Python>>, <<Python, React>>, <<JavaScript>>,
               <<Java, Python, React>>},
        e \in {<< >>, <<Lower(Python), Django>>, <<Java>>, <<JavaScript>>,
               <<Lower(React), Lower(Python), <<"s","q","l">>>>, <<Rust>>}}
    \cup
    {[vacancy |-> [BaseVacancy EXCEPT !.habilidades_blandas_requeridas = r],
      student |-> [BaseStudent EXCEPT !.habilidades_blandas = e]] :
        r \in {<< >>, <<Liderazgo>>, <<Liderazgo, Python>>},
        e \in {<< >>, <<Lower(Liderazgo)>>, <<Python>>, <<Rust>>}}
    \cup
    {[vacancy |-> [BaseVacancy EXCEPT !.idiomas_requeridos = r],
      student |-> [BaseStudent EXCEPT !.idiomas = e]] :
        r \in {<< >>}
              \cup {<<[idioma |-> English, nivel_minimo |-> n]>> : n \in Levels}
              \cup {<<[idioma |-> English, nivel_minimo |-> "B2"],
                      [idioma |-> French, nivel_minimo |-> "A1"]>>},
        e \in {<< >>}
              \cup {<<[idioma |-> Lower(English), nivel |-> n]>> : n \in Levels}
              \cup {<<[idioma |-> French, nivel |-> "A2"],
                      [idioma |-> Lower(English), nivel |-> "C2"]>>,
                    <<[idioma |-> Lower(English), nivel |-> "A1"],
                      [idioma |-> English, nivel |-> "C1"]>>,
                    <<[idioma |-> French, nivel |-> "Nativo"]>>}}
    \cup
    {[vacancy |-> [BaseVacancy EXCEPT !.experiencia_minima = r],
      student |-> [BaseStudent EXCEPT !.experiencia_laboral = e]] :
        r \in {"Sin experiencia", "Menos de 1 ano", "1-2 anos", "2-3 anos",
              "3-5 anos", "Mas de 5 anos", "otro"}, e \in 0..MaxEntries}
    \cup
    {[vacancy |-> [BaseVacancy EXCEPT !.carrera_requerida = r],
      student |-> [BaseStudent EXCEPT !.carrera = e]] :
        r \in {<< >>, <<IngSoftware>>, <<IngCivil, IngSoftware>>},
        e \in {<< >>, Lower(IngSoftware), IngCivil, <<"D","e","r","e","c","h","o">>}}
    \cup
    {[vacancy |-> [BaseVacancy EXCEPT !.semestre_minimo = r],
      student |-> [BaseStudent EXCEPT !.semestre = e]] :
        r \in {None, 0, 7}, e \in {0, 4, 5, 6, 7, 9}}
    \cup
    {[vacancy |-> [BaseVacancy EXCEPT !.modalidad = r],
      student |-> [BaseStudent EXCEPT !.modalidad_preferida = e]] :
        r \in {<< >>, Remoto, Hibrido, Presencial},
        e \in {<< >>, Lower(Remoto), Hibrido, Presencial}}

\* The fields the handlers read and write, as the collections hold them
\* before the first request.
InitVacancies ==
    [v \in VacancyIds |->
        [company_id |-> IF v = "v1" THEN "c1" ELSE "c2",
         num_candidatos_matched |-> 0,
         fecha_actualizacion |-> 0]]

\* experiencia_laboral is the number of entries of the list
InitStudents ==
    [s \in Matriculas |->
        [matricula |-> s,
         visible_empresas |-> TRUE,
         perfil_completo |-> (s # "s4"),
         experiencia_laboral |-> IF s = "s3" THEN 1 ELSE 3]]

(***************************************************************************)
(* State                                                                   *)
(***************************************************************************)
\* the vacancy document of the collection: the fields that handlers write,
\* with the requirements its company gave it
VacancyDocument(vacancy_id, doc) ==
    LET fields == VacancyRequirements[vacancy_id]
    IN  [company_id |-> doc.company_id,
         habilidades_tecnicas_requeridas |-> fields.habilidades_tecnicas_requeridas,
         habilidades_blandas_requeridas |-> fields.habilidades_blandas_requeridas,
         idiomas_requeridos |-> fields.idiomas_requeridos,
         experiencia_minima |-> fields.experiencia_minima,
         carrera_requerida |-> fields.carrera_requerida,
         semestre_minimo |-> fields.semestre_minimo,
         modalidad |-> fields.modalidad,
         num_candidatos_matched |-> doc.num_candidatos_matched,
         fecha_actualizacion |-> doc.fecha_actualizacion]

\* the student document of the collection, likewise
StudentDocument(matricula, doc) ==
    LET fields == StudentProfiles[matricula]
    IN  [matricula |-> doc.matricula,
         visible_empresas |-> doc.visible_empresas,
         perfil_completo |-> doc.perfil_completo,
         habilidades_tecnicas |-> fields.habilidades_tecnicas,
         habilidades_blandas |-> fields.habilidades_blandas,
         idiomas |-> fields.idiomas,
         experiencia_laboral |-> doc.experiencia_laboral,
         carrera |-> fields.carrera,
         semestre |-> fields.semestre,
         modalidad_preferida |-> fields.modalidad_preferida]

Procs == {1, 2}

VARIABLES
    vacancies,   \* the vacancies collection: _id -> document or NoDoc (the
                 \* fields that handlers write; FindVacancy gives the document)
    students,    \* the students collection: matricula -> document or NoDoc
                 \* (likewise, with FindStudent)
    matches,     \* the matches collection: a set of documents, each with its _id
    served,      \* requests that passed their checks so far; also the clock
    quota,       \* how many requests a behaviour serves
    ticks,       \* how far the clock has advanced between two requests
    changes,     \* profile and vacancy changes made so far
    pc,          \* per request slot: the await the handler is suspended at
    req,         \* per request slot: the request's parameters
    loc,         \* per request slot: the handler's local variables
    obs,         \* per request slot: what the handler has done so far (history)
    done,        \* the request that returned last: its parameters, response,
                 \* locals and history
    stable,      \* per vacancy: threshold of a completed undisturbed bulk run
                 \* since which nothing that bulk matching reads has changed
    lowest       \* per vacancy: the lowest threshold of the bulk runs completed
                 \* since the vacancy had no record, None before the first;
                 \* Void once a run failed, a reset met a run that was going
                 \* on, or a profile or the vacancy changed (history)

vars == <<vacancies, students, matches, served, quota, ticks, changes,
          pc, req, loc, obs, done, stable, lowest>>

\* an evaluation that gives a student who already has a match full marks
\* for the career
DesgloseOfMatched(vacancy, student) ==
    [habilidades_tecnicas |->
        calculate_skills_match(student.habilidades_tecnicas,
                               vacancy.habilidades_tecnicas_requeridas),
     habilidades_blandas |->
        calculate_skills_match(student.habilidades_blandas,
                               vacancy.habilidades_blandas_requeridas),
     idiomas |-> calculate_language_match(student.idiomas, vacancy.idiomas_requeridos),
     experiencia |->
        calculate_experience_match(student.experiencia_laboral, vacancy.experiencia_minima),
     carrera |->
        IF \E m \in matches : m.student_matricula = student.matricula THEN One
        ELSE calculate_career_match(student.carrera, vacancy.carrera_requerida),
     semestre |-> calculate_semester_match(student.semestre, vacancy.semestre_minimo),
     modalidad |-> calculate_modality_match(student.modalidad_preferida, vacancy.modalidad)]

\* the MatchDesglose that perform_matching builds from the two documents
Desglose(vacancy, student) ==
    [habilidades_tecnicas |->
        calculate_skills_match(student.habilidades_tecnicas,
                               vacancy.habilidades_tecnicas_requeridas),
     habilidades_blandas |->
        calculate_skills_match(student.habilidades_blandas,
                               vacancy.habilidades_blandas_requeridas),
     idiomas |-> calculate_language_match(student.idiomas, vacancy.idiomas_requeridos),
     experiencia |->
        calculate_experience_match(student.experiencia_laboral, vacancy.experiencia_minima),
     carrera |-> calculate_career_match(student.carrera, vacancy.carrera_requerida),
     semestre |-> calculate_semester_match(student.semestre, vacancy.semestre_minimo),
     modalidad |-> calculate_modality_match(student.modalidad_preferida, vacancy.modalidad)]

\* datetime.utcnow(): a clock that never goes back; it advances when a
\* request is served, and between the steps of requests with Tick
utcnow == served + ticks

Request(op, vacancy_id, company, min, skip, limit, matricula) ==
    [op |-> op, vacancy_id |-> vacancy_id, company |-> company, min |-> min,
     skip |-> skip, limit |-> limit, student_matricula |-> matricula]

NoReq == Request("none", "v0", "c1", 0, 0, 0, "s0")

NoLoc ==
    [student_list |-> << >>, i |-> 0, matches_found |-> 0, matches_created |-> 0,
     vacancy |-> NoDoc, student |-> NoDoc, match_doc |-> NoDoc,
     match_list |-> << >>,
     matches_response |-> << >>, deleted_count |-> 0]

NoObs ==
    [touched |-> FALSE,     \* the handler has awaited a collection
     wrote |-> FALSE,       \* the handler has written to a collection
     vac_seen |-> "-",      \* what the vacancy lookup found: absent, foreign, own
     clean |-> TRUE,        \* nothing else has changed what the run reads
     after |-> None,        \* stable[vacancy] when the request arrived
     before |-> {},         \* the vacancy's records when the bulk run arrived
     at_end |-> {},         \* the vacancy's records when the run returned
     fresh |-> FALSE,       \* no pool member had a record when the pool was loaded
     pool_size |-> None,    \* visible and complete students at pool load
     pool |-> {},           \* their matriculas
     expected |-> None,     \* pool members scoring >= min at pool load
     evaluated |-> {},      \* pool members the run has evaluated, with the score
     created |-> {},        \* pool members the run inserted a record for, with
                            \* the score
     conflict |-> FALSE,    \* an insert met the unique index
     fetch_failed |-> FALSE,\* perform_matching found no student
     vacancy_found |-> FALSE,\* the vacancy was in its collection when
                            \* perform_matching looked it up
     old_count |-> None,    \* the vacancy's counter before the run wrote it
     new_count |-> None,    \* the vacancy's counter after the run wrote it
     count_written |-> FALSE,
     at_query |-> {}]       \* the matches collection when the listing queried it

NoDone == [slot |-> 0, req |-> NoReq, resp |-> [status |-> 0], loc |-> NoLoc,
           obs |-> NoObs]

InitWith(q) ==
    /\ vacancies = InitVacancies
    /\ students = InitStudents
    /\ matches = {}
    /\ served = 0
    /\ quota = q
    /\ ticks = 0
    /\ changes = 0
    /\ pc = [p \in Procs |-> "idle"]
    /\ req = [p \in Procs |-> NoReq]
    /\ loc = [p \in Procs |-> NoLoc]
    /\ obs = [p \in Procs |-> NoObs]
    /\ done = NoDone
    /\ stable = [v \in VacancyIds |-> None]
    /\ lowest = [v \in VacancyIds |-> None]

Init == InitWith(MaxRequests)

InitErr == InitWith(MaxErrRequests)

InitEnv == InitWith(MaxEnvRequests)

InitCalc == InitWith(MaxCalcRequests)

InitFail == InitWith(MaxFailRequests)

\* the record that a bulk run on the vacancy, served as the request number
\* `at` in slot 1, inserts as its n-th for the student `matricula`
RunMatch(vacancy_id, matricula, at, n) ==
    LET desglose == Desglose(VacancyDocument(vacancy_id, InitVacancies[vacancy_id]),
                             StudentDocument(matricula, InitStudents[matricula]))
    IN  [_id |-> <<at, 1, n>>,
         vacancy_id |-> vacancy_id,
         student_matricula |-> matricula,
         porcentaje_match |-> calculate_overall_match(desglose),
         desglose |-> desglose,
         radar_chart_data |-> RadarData(desglose),
         fecha_match |-> at,
         visto_por_empresa |-> FALSE,
         fecha_visto |-> None,
         embedding_similarity |-> None]

FirstRunMatch(matricula, n) == RunMatch("v1", matricula, 1, n)

\* the collections after the owner of v1 has run one bulk matching with the
\* threshold 80 and nothing else has happened: records for s1 (100.00) and
\* s2 (80.00), the vacancy's counter at 2; q more requests are served
InitStored(q) ==
    /\ vacancies = [InitVacancies EXCEPT !["v1"].num_candidatos_matched = 2,
                                         !["v1"].fecha_actualizacion = 1]
    /\ students = InitStudents
    /\ matches = {FirstRunMatch("s1", 0), FirstRunMatch("s2", 1)}
    /\ served = 1
    /\ quota = 1 + q
    /\ ticks = 0
    /\ changes = 0
    /\ pc = [p \in Procs |-> "idle"]
    /\ req = [p \in Procs |-> NoReq]
    /\ loc = [p \in Procs |-> NoLoc]
    /\ obs = [p \in Procs |-> NoObs]
    /\ done = NoDone
    /\ stable = [v \in VacancyIds |-> IF v = "v1" THEN 8000 ELSE None]
    /\ lowest = [v \in VacancyIds |-> IF v = "v1" THEN 8000 ELSE None]

InitStore == InitStored(MaxStoreRequests)

InitDrift == InitStored(MaxDriftRequests)

\* perform_matching holds a vacancy and a student document, any of the
\* samples, and is about to compute the factors
InitScore ==
    /\ vacancies = InitVacancies
    /\ students = InitStudents
    /\ matches = {}
    /\ served = 0
    /\ quota = 0
    /\ ticks = 0
    /\ changes = 0
    /\ pc = [p \in Procs |-> IF p = 1 THEN "pm_score" ELSE "idle"]
    /\ req = [p \in Procs |-> IF p = 1 THEN Request("score", "v0", "c1", 0, 0, 0, "s0")
                                ELSE NoReq]
    /\ \E vacancy \in SampleVacancies : \E student \in SampleStudents :
          loc = [p \in Procs |-> IF p = 1
                                 THEN [NoLoc EXCEPT !.vacancy = vacancy,
                                                    !.student = student]
                                 ELSE NoLoc]
    /\ obs = [p \in Procs |-> NoObs]
    /\ done = NoDone
    /\ stable = [v \in VacancyIds |-> None]
    /\ lowest = [v \in VacancyIds |-> None]

\* the same, with a pair of documents that differ from the base documents
\* on one dimension
InitFactor ==
    /\ vacancies = InitVacancies
    /\ students = InitStudents
    /\ matches = {}
    /\ served = 0
    /\ quota = 0
    /\ ticks = 0
    /\ changes = 0
    /\ pc = [p \in Procs |-> IF p = 1 THEN "pm_score" ELSE "idle"]
    /\ req = [p \in Procs |-> IF p = 1 THEN Request("score", "v0", "c1", 0, 0, 0, "s0")
                                ELSE NoReq]
    /\ \E case \in FactorCases :
          loc = [p \in Procs |-> IF p = 1
                                 THEN [NoLoc EXCEPT !.vacancy = case.vacancy,
                                                    !.student = case.student]
                                 ELSE NoLoc]
    /\ obs = [p \in Procs |-> NoObs]
    /\ done = NoDone
    /\ stable = [v \in VacancyIds |-> None]
    /\ lowest = [v \in VacancyIds |-> None]

\* no match yet, and no student in the pool: s1, s2 and s3 have hidden
\* their profiles, that of s4 is incomplete
InitHidden ==
    /\ vacancies = InitVacancies
    /\ students = [s \in Matriculas |->
                      [InitStudents[s] EXCEPT !.visible_empresas = (s = "s4")]]
    /\ matches = {}
    /\ served = 0
    /\ quota = MaxHiddenRequests
    /\ ticks = 0
    /\ changes = 0
    /\ pc = [p \in Procs |-> "idle"]
    /\ req = [p \in Procs |-> NoReq]
    /\ loc = [p \in Procs |-> NoLoc]
    /\ obs = [p \in Procs |-> NoObs]
    /\ done = NoDone
    /\ stable = [v \in VacancyIds |-> None]
    /\ lowest = [v \in VacancyIds |-> None]

\* the collections after the owner of v1 has run one bulk matching with the
\* threshold 80 and then the owner of v2 one with the same threshold: v2
\* requires nothing, s1, s2 and s3 score 100.00 on it
InitListed(q) ==
    /\ vacancies = [InitVacancies EXCEPT !["v1"].num_candidatos_matched = 2,
                                         !["v1"].fecha_actualizacion = 1,
                                         !["v2"].num_candidatos_matched = 3,
                                         !["v2"].fecha_actualizacion = 2]
    /\ students = InitStudents
    /\ matches = {FirstRunMatch("s1", 0), FirstRunMatch("s2", 1),
                  RunMatch("v2", "s1", 2, 0), RunMatch("v2", "s2", 2, 1),
                  RunMatch("v2", "s3", 2, 2)}
    /\ served = 2
    /\ quota = 2 + q
    /\ ticks = 0
    /\ changes = 0
    /\ pc = [p \in Procs |-> "idle"]
    /\ req = [p \in Procs |-> NoReq]
    /\ loc = [p \in Procs |-> NoLoc]
    /\ obs = [p \in Procs |-> NoObs]
    /\ done = NoDone
    /\ stable = [v \in VacancyIds |-> 8000]
    /\ lowest = [v \in VacancyIds |-> 8000]

InitList == InitListed(MaxListRequests)

InitReset == InitListed(MaxResetRequests)

(***************************************************************************)
(* Collections                                                             *)
(***************************************************************************)
\* vacancies.find_one({"_id": ObjectId(vacancy_id)})
FindVacancy(vacancy_id) ==
    IF vacancy_id \notin VacancyIds \/ vacancies[vacancy_id] = NoDoc THEN NoDoc
    ELSE VacancyDocument(vacancy_id, vacancies[vacancy_id])

\* students.find_one({"matricula": matricula})
FindStudent(matricula) ==
    IF matricula \notin Matriculas \/ students[matricula] = NoDoc THEN NoDoc
    ELSE StudentDocument(matricula, students[matricula])

\* matches.find({"vacancy_id": ObjectId(vacancy_id)})
MatchesOf(vacancy_id) == {m \in matches : m.vacancy_id = vacancy_id}

\* a bulk run that never finds an existing match
ExistingMatchIgnored(vacancy_id, matricula) == FALSE

\* matches.find_one({"vacancy_id": ..., "student_matricula": ...}) is not None
ExistingMatch(vacancy_id, matricula) ==
    \E m \in matches : m.vacancy_id = vacancy_id /\ m.student_matricula = matricula

\* a matches collection without its unique index
NoUniqueIndex(match_doc) == FALSE

\* the unique index on (vacancy_id, student_matricula) rejects the document
DuplicateKey(match_doc) ==
    \E m \in matches :
        /\ m.vacancy_id = match_doc.vacancy_id
        /\ m.student_matricula = match_doc.student_matricula

\* a pool filter that forgets perfil_completo
VisibleOnly(student) == student # NoDoc /\ student.visible_empresas

\* a pool filter that forgets visible_empresas
CompleteOnly(student) == student # NoDoc /\ student.perfil_completo

\* the filter {"visible_empresas": True, "perfil_completo": True}
Eligible(student) ==
    student # NoDoc /\ student.visible_empresas /\ student.perfil_completo

\* students.find(...).to_list(): the matriculas of the documents, in natural order
EligibleList ==
    SelectSeq(StudentOrder, LAMBDA s : Eligible(students[s]))

\* an ownership check that lets every company through
AnyCompany(vacancy, company) == TRUE

\* str(vacancy["company_id"]) != str(current_company.id) is false
OwnedBy(vacancy, company) == vacancy.company_id = company

\* the three handlers' check of the vacancy: the status they raise, or 200
VerifyVacancy(vacancy, company) ==
    IF vacancy = NoDoc THEN 404
    ELSE IF ~OwnedBy(vacancy, company) THEN 403
    ELSE 200

\* what the lookup found, read off the store itself
VacSeen(vacancy_id, company) ==
    IF vacancy_id \notin VacancyIds \/ vacancies[vacancy_id] = NoDoc THEN "absent"
    ELSE IF vacancies[vacancy_id].company_id # company THEN "foreign"
    ELSE "own"

\* Query(..., ge=0, le=100)
InRange(min) == min >= 0 /\ min <= 10000

\* the _id insert_one gives a new document: no two inserts get the same one
\* (the clock, the slot of the inserting request and its counter)
ObjectId(p) == <<utcnow, p, loc[p].matches_created>>

\* a comparison that leaves out the threshold itself
StrictlyAbove(porcentaje, min) == porcentaje > min

\* porcentaje >= min_match_percentage
MeetsMinimum(porcentaje, min) == porcentaje >= min

\* the records of a vacancy without the viewed flag and its timestamp
Core(ms) ==
    {[_id |-> m._id, vacancy_id |-> m.vacancy_id,
      student_matricula |-> m.student_matricula,
      porcentaje_match |-> m.porcentaje_match, desglose |-> m.desglose,
      radar_chart_data |-> m.radar_chart_data, fecha_match |-> m.fecha_match] : m \in ms}

\* another request or a profile change has touched what the runs on these
\* vacancies read: the running bulk runs other than p are no longer undisturbed
Disturbed(p, vs) ==
    [q \in Procs |->
        IF q # p /\ pc[q] # "idle" /\ req[q].op = "run" /\ req[q].vacancy_id \in vs
        THEN [obs[q] EXCEPT !.clean = FALSE]
        ELSE obs[q]]

(***************************************************************************)
(* Requests                                                                *)
(***************************************************************************)
\* the bulk runs callers ask for: the owner at the default threshold 80.0
\* and at 60.0
RunRequests ==
    {Request("run", "v1", "c1", 8000, 0, 0, "s0"),
     Request("run", "v1", "c1", 6000, 0, 0, "s0")}

\* a vacancy of another company, no vacancy, a malformed identifier,
\* thresholds outside [0, 100]
RunErrRequests ==
    {Request("run", "v1", "c2", 8000, 0, 0, "s0"),
     Request("run", "v0", "c1", 8000, 0, 0, "s0"),
     Request("run", "bad", "c1", 8000, 0, 0, "s0"),
     Request("run", "v1", "c1", 10001, 0, 0, "s0"),
     Request("run", "v1", "c1", None, 0, 0, "s0")}

\* the listing with its defaults: min_percentage 0, skip 0, limit 50
ListRequests ==
    {Request("list", "v1", "c1", 0, 0, 50, "s0")}

\* listings with and without a filter, an offset and a short page
ListAnyRequests ==
    {Request("list", "v1", "c1", min, skip, limit, "s0") :
         min \in {0, 9000}, skip \in {0, 1}, limit \in {1, 50}}

ListErrRequests ==
    {Request("list", "v1", "c2", 0, 0, 50, "s0"),
     Request("list", "v0", "c1", 0, 0, 50, "s0"),
     Request("list", "bad", "c1", 0, 0, 50, "s0"),
     Request("list", "v1", "c1", 10001, 0, 50, "s0")}

ResetRequests ==
    {Request("reset", "v1", "c1", 0, 0, 0, "s0")}

ResetErrRequests ==
    {Request("reset", "v1", "c2", 0, 0, 0, "s0"),
     Request("reset", "v0", "c1", 0, 0, 0, "s0"),
     Request("reset", "bad", "c1", 0, 0, 0, "s0")}

CalcRequests ==
    {Request("calc", "v1", "c1", 0, 0, 0, "s2")}

CalcErrRequests ==
    {Request("calc", "bad", "c1", 0, 0, 0, "s2")}

\* single evaluations of every combination of a vacancy and a student that
\* are or are not in their collections
CalcAnyRequests ==
    {Request("calc", v, "c1", 0, 0, 0, s) : v \in {"v1", "v0"}, s \in {"s2", "s0"}}

\* a request is served in the lowest free slot
FreeSlot(p) ==
    /\ pc[p] = "idle"
    /\ \A q \in Procs : q < p => pc[q] # "idle"

\* requests that arrived and have not passed their vacancy check yet
Pending ==
    Cardinality({q \in Procs : pc[q] \in {"run_vacancy", "list_vacancy", "reset_vacancy"}})

\* the slot after the request r arrived, the handler suspended at `at`; a
\* request that its check is going to refuse is not counted
Arrive(p, r, at) ==
    /\ served + Pending < quota \/ VacSeen(r.vacancy_id, r.company) # "own"
    /\ req' = [req EXCEPT ![p] = r]
    /\ pc' = [pc EXCEPT ![p] = at]
    /\ obs' = [obs EXCEPT ![p] =
                 [NoObs EXCEPT
                    !.after = IF r.vacancy_id \in VacancyIds
                              THEN stable[r.vacancy_id] ELSE None,
                    !.before = IF r.op = "run" THEN Core(MatchesOf(r.vacancy_id))
                               ELSE {}]]
    /\ UNCHANGED <<vacancies, students, matches, quota, ticks, changes,
                   loc, done, stable, lowest>>

\* the request r is refused with `status` before its handler awaits anything
Refuse(p, r, status) ==
    /\ done' = [slot |-> p, req |-> r, resp |-> [status |-> status],
                loc |-> NoLoc, obs |-> NoObs]
    /\ UNCHANGED <<vacancies, students, matches, served, quota, ticks, changes,
                   pc, req, loc, obs, stable, lowest>>

\* perform_matching has returned or raised: its local `vacancy` is gone
Left(l) == [l EXCEPT !.vacancy = NoDoc]

\* the locals kept with a response: matches_response is in the response
Kept(l) == [Left(l) EXCEPT !.matches_response = << >>]

\* the handler of slot p returns `response`: its locals l and its history o
\* are kept with it, the slot is free again
Return(p, response, l, o) ==
    /\ done' = [slot |-> p, req |-> req[p], resp |-> response, loc |-> Kept(l),
                obs |-> o]
    /\ pc' = [pc EXCEPT ![p] = "idle"]
    /\ req' = [req EXCEPT ![p] = NoReq]
    /\ loc' = [loc EXCEPT ![p] = NoLoc]

\* the handler of slot p raises HTTPException(status) or lets an exception
\* escape (500, general_exception_handler)
Raise(p, status, o) ==
    /\ Return(p, [status |-> status], loc[p], o)
    /\ obs' = [obs EXCEPT ![p] = NoObs]

\* the vacancy lookup and ownership check shared by the run, list and reset
\* handlers: the handler goes on at `next` or raises 404 or 403
CheckVacancy(p, next) ==
    LET vacancy == FindVacancy(req[p].vacancy_id)
        status == VerifyVacancy(vacancy, req[p].company)
        o == [obs[p] EXCEPT !.touched = TRUE,
                            !.vac_seen = VacSeen(req[p].vacancy_id, req[p].company)]
    IN  /\ IF status = 200
           THEN /\ pc' = [pc EXCEPT ![p] = next]
                /\ obs' = [obs EXCEPT ![p] = o]
                /\ served' = served + 1
                /\ UNCHANGED <<req, loc, done>>
           ELSE /\ Raise(p, status, o)
                /\ UNCHANGED served
        /\ UNCHANGED <<vacancies, students, matches, quota, ticks, changes, stable, lowest>>

(***************************************************************************)
(* perform_matching, called by the bulk run and by the single evaluation   *)
(***************************************************************************)
\* the matricula perform_matching was called with
CurrentMatricula(p) ==
    IF req[p].op = "run" THEN loc[p].student_list[loc[p].i]
    ELSE req[p].student_matricula

\* the loop of the bulk run after the candidate at index i: the next
\* candidate, or the update of the vacancy's counter
NextCandidate(l) ==
    IF l.i < Len(l.student_list) THEN [l EXCEPT !.i = l.i + 1] ELSE l

NextRunPc(l) ==
    IF l.i < Len(l.student_list) THEN "run_existing" ELSE "run_update"

\* vacancy = await vacancies.find_one(...)
PerformMatchingVacancy(p) ==
    /\ pc[p] = "pm_vacancy"
    /\ loc' = [loc EXCEPT ![p].vacancy = FindVacancy(req[p].vacancy_id)]
    /\ pc' = [pc EXCEPT ![p] = "pm_student"]
    /\ obs' = [obs EXCEPT ![p].touched = TRUE,
                          ![p].vacancy_found =
                              /\ req[p].vacancy_id \in VacancyIds
                              /\ vacancies[req[p].vacancy_id] # NoDoc]
    /\ UNCHANGED <<vacancies, students, matches, served, quota, ticks, changes,
                   req, done, stable, lowest>>

\* an evaluator that answers a missing document with an empty success
AnswerWithoutBreakdown(p, student) ==
    /\ Return(p, [status |-> 200], loc[p], obs[p])
    /\ obs' = [obs EXCEPT ![p] = NoObs]

\* a bulk run that answers an empty pool with an error
EmptyPoolError == [status |-> 404]

\* return {"message": "No students found", "total_students_evaluated": 0,
\* "matches_found": 0}
EmptyPoolSummary ==
    [status |-> 200, total_students_evaluated |-> 0, matches_found |-> 0,
     matches_created |-> None]

\* a bulk run that goes on with the next candidate when a document is missing
SkipCandidate(p, student) ==
    IF req[p].op = "run"
    THEN /\ obs' = [obs EXCEPT ![p].fetch_failed = (student = NoDoc)]
         /\ pc' = [pc EXCEPT ![p] = NextRunPc(loc[p])]
         /\ loc' = [loc EXCEPT ![p] = NextCandidate(Left(loc[p]))]
         /\ UNCHANGED <<req, done>>
    ELSE Raise(p, 404, [obs[p] EXCEPT !.fetch_failed = (student = NoDoc)])

\* raise HTTPException(404, "Vacancy or student not found"): nothing in the
\* bulk run's loop catches it
RaiseNotFound(p, student) ==
    Raise(p, 404, [obs[p] EXCEPT !.fetch_failed = (student = NoDoc)])

\* the MatchDesglose is returned to the caller, which computes the
\* percentage and the radar data
Evaluated(p, desglose) ==
    LET porcentaje == calculate_overall_match(desglose)
        radar_data == RadarData(desglose)
        matricula == CurrentMatricula(p)
    IN  IF req[p].op = "calc"
        THEN /\ Return(p, [status |-> 200, porcentaje_match |-> porcentaje,
                           desglose |-> desglose, radar_chart_data |-> radar_data],
                       loc[p], obs[p])
             /\ obs' = [obs EXCEPT ![p] = NoObs]
        ELSE /\ obs' = [obs EXCEPT ![p].evaluated =
                           @ \cup {[matricula |-> matricula, porcentaje |-> porcentaje]}]
             /\ UNCHANGED <<req, done>>
             /\ IF MeetsMinimum(porcentaje, req[p].min)
                THEN /\ pc' = [pc EXCEPT ![p] = "run_insert"]
                     /\ loc' = [loc EXCEPT
                           ![p].vacancy = NoDoc,
                           ![p].matches_found = @ + 1,
                           ![p].match_doc =
                               [vacancy_id |-> req[p].vacancy_id,
                                student_matricula |-> matricula,
                                porcentaje_match |-> porcentaje,
                                desglose |-> desglose,
                                radar_chart_data |-> radar_data,
                                fecha_match |-> utcnow,
                                visto_por_empresa |-> FALSE,
                                fecha_visto |-> None,
                                embedding_similarity |-> None]]
                ELSE /\ pc' = [pc EXCEPT ![p] = NextRunPc(loc[p])]
                     /\ loc' = [loc EXCEPT ![p] = NextCandidate(Left(loc[p]))]

\* student = await students.find_one(...), the check of both documents and
\* the seven scores
PerformMatchingStudent(p) ==
    /\ pc[p] = "pm_student"
    /\ LET student == FindStudent(CurrentMatricula(p))
       IN  IF loc[p].vacancy = NoDoc \/ student = NoDoc
           THEN RaiseNotFound(p, student)
           ELSE Evaluated(p, Desglose(loc[p].vacancy, student))
    /\ UNCHANGED <<vacancies, students, matches, served, quota, ticks, changes,
                   stable, lowest>>

\* MatchDesglose(...): every field is declared with ge=0, le=1
ValidDesglose(desglose) ==
    \A k \in DOMAIN Fields : desglose[Fields[k]] >= 0 /\ desglose[Fields[k]] <= One

\* the seven scores of the two documents perform_matching holds, the
\* MatchDesglose built from them and the percentage of its caller; a
\* ValidationError of the MatchDesglose is answered with 500
PerformMatchingScore(p) ==
    /\ pc[p] = "pm_score"
    /\ LET desglose == Desglose(loc[p].vacancy, loc[p].student)
           response ==
               IF ValidDesglose(desglose)
               THEN [status |-> 200,
                     porcentaje_match |-> calculate_overall_match(desglose),
                     desglose |-> desglose,
                     radar_chart_data |-> RadarData(desglose)]
               ELSE [status |-> 500]
       IN  done' = [slot |-> p, req |-> req[p], resp |-> response, loc |-> loc[p],
                    obs |-> obs[p]]
    /\ pc' = [pc EXCEPT ![p] = "idle"]
    /\ req' = [req EXCEPT ![p] = NoReq]
    /\ loc' = [loc EXCEPT ![p] = NoLoc]
    /\ UNCHANGED <<vacancies, students, matches, served, quota, ticks, changes,
                   obs, stable, lowest>>

(***************************************************************************)
(* POST /student/calculate                                                 *)
(***************************************************************************)
ReceiveCalc(p, requests) ==
    /\ FreeSlot(p)
    /\ \E r \in requests :
          IF ~ObjectId_is_valid(r.vacancy_id)
          THEN Refuse(p, r, 500)     \* ObjectId(vacancy_id) raises InvalidId
          ELSE /\ served + Pending < quota
               /\ Arrive(p, r, "pm_vacancy")
               /\ served' = served + 1

(***************************************************************************)
(* POST /vacancy/{vacancy_id}/run                                          *)
(***************************************************************************)
ReceiveRun(p, requests) ==
    /\ FreeSlot(p)
    /\ \E r \in requests :
          IF ~InRange(r.min) THEN Refuse(p, r, 422)
          ELSE IF ~ObjectId_is_valid(r.vacancy_id) THEN Refuse(p, r, 400)
          ELSE Arrive(p, r, "run_vacancy") /\ UNCHANGED served

RunFindVacancy(p) ==
    /\ pc[p] = "run_vacancy"
    /\ CheckVacancy(p, "run_students")

\* the score the evaluator gives a pool member, read off the two collections
ScoreNow(vacancy_id, matricula) ==
    calculate_overall_match(Desglose(FindVacancy(vacancy_id), FindStudent(matricula)))

RunFindStudents(p) ==
    /\ pc[p] = "run_students"
    /\ LET student_list == EligibleList
           v == req[p].vacancy_id
           pool == {s \in Matriculas :
                       /\ students[s] # NoDoc
                       /\ students[s].visible_empresas
                       /\ students[s].perfil_completo}
           l == [loc[p] EXCEPT !.student_list = student_list, !.i = 1]
           o == [obs[p] EXCEPT
                   !.pool_size = Cardinality(pool),
                   !.pool = pool,
                   !.fresh = \A s \in pool :
                                ~\E m \in matches : /\ m.vacancy_id = v
                                                    /\ m.student_matricula = s,
                   !.expected =
                       IF vacancies[v] = NoDoc THEN None
                       ELSE Cardinality({s \in pool : ScoreNow(v, s) >= req[p].min})]
       IN  IF student_list = << >>
           THEN /\ Return(p, EmptyPoolSummary, l, o)
                /\ obs' = [obs EXCEPT ![p] = NoObs]
           ELSE /\ pc' = [pc EXCEPT ![p] = "run_existing"]
                /\ loc' = [loc EXCEPT ![p] = l]
                /\ obs' = [obs EXCEPT ![p] = o]
                /\ UNCHANGED <<req, done>>
    /\ UNCHANGED <<vacancies, students, matches, served, quota, ticks, changes,
                   stable, lowest>>

\* existing_match = await matches.find_one(...); if existing_match: continue
RunFindExisting(p) ==
    /\ pc[p] = "run_existing"
    /\ IF ExistingMatch(req[p].vacancy_id, CurrentMatricula(p))
       THEN /\ pc' = [pc EXCEPT ![p] = NextRunPc(loc[p])]
            /\ loc' = [loc EXCEPT ![p] = NextCandidate(loc[p])]
       ELSE /\ pc' = [pc EXCEPT ![p] = "pm_vacancy"]
            /\ UNCHANGED loc
    /\ UNCHANGED <<vacancies, students, matches, served, quota, ticks, changes,
                   req, obs, done, stable, lowest>>

\* a bulk run that brings the vacancy's counter up to date with every insert
RunInsertCounting(p) ==
    /\ pc[p] = "run_insert"
    /\ IF DuplicateKey(loc[p].match_doc)
       THEN /\ Raise(p, 500, [obs[p] EXCEPT !.conflict = TRUE])
            /\ lowest' = [lowest EXCEPT ![req[p].vacancy_id] = Void]
            /\ UNCHANGED <<matches, vacancies>>
       ELSE /\ matches' = matches \cup
                  {[_id |-> ObjectId(p),
                    vacancy_id |-> loc[p].match_doc.vacancy_id,
                    student_matricula |-> loc[p].match_doc.student_matricula,
                    porcentaje_match |-> loc[p].match_doc.porcentaje_match,
                    desglose |-> loc[p].match_doc.desglose,
                    radar_chart_data |-> loc[p].match_doc.radar_chart_data,
                    fecha_match |-> loc[p].match_doc.fecha_match,
                    visto_por_empresa |-> loc[p].match_doc.visto_por_empresa,
                    fecha_visto |-> loc[p].match_doc.fecha_visto,
                    embedding_similarity |-> loc[p].match_doc.embedding_similarity]}
            /\ vacancies' =
                  IF vacancies[req[p].vacancy_id] = NoDoc THEN vacancies
                  ELSE [vacancies EXCEPT ![req[p].vacancy_id].num_candidatos_matched =
                                             loc[p].matches_created + 1]
            /\ pc' = [pc EXCEPT ![p] = NextRunPc(loc[p])]
            /\ loc' = [loc EXCEPT ![p] =
                         [NextCandidate(loc[p]) EXCEPT !.matches_created = @ + 1,
                                                       !.match_doc = NoDoc]]
            /\ obs' = [Disturbed(p, {req[p].vacancy_id}) EXCEPT
                         ![p].wrote = TRUE,
                         ![p].created = @ \cup
                             {[matricula |-> loc[p].match_doc.student_matricula,
                               porcentaje |-> loc[p].match_doc.porcentaje_match]}]
            /\ UNCHANGED <<req, done, lowest>>
    /\ UNCHANGED <<students, served, quota, ticks, changes, stable>>

\* await matches.insert_one(match_doc); matches_created += 1
RunInsert(p) ==
    /\ pc[p] = "run_insert"
    /\ IF DuplicateKey(loc[p].match_doc)
       THEN \* DuplicateKeyError: nothing catches it
            /\ Raise(p, 500, [obs[p] EXCEPT !.conflict = TRUE])
            /\ lowest' = [lowest EXCEPT ![req[p].vacancy_id] = Void]
            /\ UNCHANGED matches
       ELSE /\ matches' = matches \cup
                  {[_id |-> ObjectId(p),
                    vacancy_id |-> loc[p].match_doc.vacancy_id,
                    student_matricula |-> loc[p].match_doc.student_matricula,
                    porcentaje_match |-> loc[p].match_doc.porcentaje_match,
                    desglose |-> loc[p].match_doc.desglose,
                    radar_chart_data |-> loc[p].match_doc.radar_chart_data,
                    fecha_match |-> loc[p].match_doc.fecha_match,
                    visto_por_empresa |-> loc[p].match_doc.visto_por_empresa,
                    fecha_visto |-> loc[p].match_doc.fecha_visto,
                    embedding_similarity |-> loc[p].match_doc.embedding_similarity]}
            /\ pc' = [pc EXCEPT ![p] = NextRunPc(loc[p])]
            /\ loc' = [loc EXCEPT ![p] =
                         [NextCandidate(loc[p]) EXCEPT !.matches_created = @ + 1,
                                                       !.match_doc = NoDoc]]
            /\ obs' = [Disturbed(p, {req[p].vacancy_id}) EXCEPT
                         ![p].wrote = TRUE,
                         ![p].created = @ \cup
                             {[matricula |-> loc[p].match_doc.student_matricula,
                               porcentaje |-> loc[p].match_doc.porcentaje_match]}]
            /\ UNCHANGED <<req, done, lowest>>
    /\ UNCHANGED <<vacancies, students, served, quota, ticks, changes, stable>>

\* a counter that adds the run's records to the ones counted before
AccumulatedCount(old, matches_created) == old + matches_created

\* "num_candidatos_matched": matches_created
NewMatchedCount(old, matches_created) == matches_created

\* await vacancies.update_one(...) and the summary
RunUpdateCount(p) ==
    /\ pc[p] = "run_update"
    /\ LET v == req[p].vacancy_id
       IN  /\ vacancies' =
                 IF vacancies[v] = NoDoc THEN vacancies
                 ELSE [vacancies EXCEPT
                         ![v].num_candidatos_matched =
                             NewMatchedCount(@, loc[p].matches_created),
                         ![v].fecha_actualizacion = utcnow]
           /\ Return(p, [status |-> 200,
                         total_students_evaluated |-> Len(loc[p].student_list),
                         matches_found |-> loc[p].matches_found,
                         matches_created |-> loc[p].matches_created],
                     loc[p],
                     [obs[p] EXCEPT
                        !.wrote = (@ \/ vacancies[v] # NoDoc),
                        !.count_written = (vacancies[v] # NoDoc),
                        !.old_count = IF vacancies[v] = NoDoc THEN None
                                      ELSE vacancies[v].num_candidatos_matched,
                        !.new_count = IF vacancies[v] = NoDoc THEN None
                                      ELSE vacancies'[v].num_candidatos_matched,
                        !.at_end = Core(MatchesOf(v))])
           /\ obs' = [obs EXCEPT ![p] = NoObs]
           /\ stable' = IF obs[p].clean THEN [stable EXCEPT ![v] = req[p].min]
                        ELSE stable
           /\ lowest' = [lowest EXCEPT ![v] =
                            IF @ = Void THEN Void
                            ELSE IF @ = None \/ req[p].min < @ THEN req[p].min
                            ELSE @]
    /\ UNCHANGED <<students, matches, served, quota, ticks, changes>>

(***************************************************************************)
(* GET /vacancy/{vacancy_id}/matches                                       *)
(***************************************************************************)
ReceiveList(p, requests) ==
    /\ FreeSlot(p)
    /\ \E r \in requests :
          IF ~InRange(r.min) THEN Refuse(p, r, 422)
          ELSE IF ~ObjectId_is_valid(r.vacancy_id) THEN Refuse(p, r, 400)
          ELSE Arrive(p, r, "list_vacancy") /\ UNCHANGED served

ListFindVacancy(p) ==
    /\ pc[p] = "list_vacancy"
    /\ CheckVacancy(p, "list_query")

\* the filter {"vacancy_id": ..., "porcentaje_match": {"$gte": min_percentage}}
Filtered(vacancy_id, min) ==
    {m \in MatchesOf(vacancy_id) : m.porcentaje_match >= min}

\* .sort("porcentaje_match", -1): every order of the set that is
\* non-increasing in the percentage (the store leaves ties in any order)
SortedDesc(ms) ==
    {f \in [1..Cardinality(ms) -> ms] :
        /\ \A a, b \in 1..Cardinality(ms) : a # b => f[a] # f[b]
        /\ \A a \in 1..(Cardinality(ms) - 1) :
              f[a].porcentaje_match >= f[a + 1].porcentaje_match}

\* a page that ignores the offset
PageFromStart(f, skip, limit) ==
    SubSeq(f, 1, IF limit < Len(f) THEN limit ELSE Len(f))

\* .skip(skip).limit(limit).to_list(length=limit)
Page(f, skip, limit) ==
    SubSeq(f, skip + 1, IF skip + limit < Len(f) THEN skip + limit ELSE Len(f))

\* the loop over match_list at index i: the update of an unseen match, the
\* lookup of its student, or the count after the last match
NextListPc(l) ==
    IF l.i > Len(l.match_list) THEN "list_count"
    ELSE IF ~l.match_list[l.i].visto_por_empresa THEN "list_mark"
    ELSE "list_student"

ListQuery(p) ==
    /\ pc[p] = "list_query"
    /\ \E f \in SortedDesc(Filtered(req[p].vacancy_id, req[p].min)) :
          LET l == [loc[p] EXCEPT !.match_list = Page(f, req[p].skip, req[p].limit),
                                  !.i = 1]
          IN  /\ loc' = [loc EXCEPT ![p] = l]
              /\ pc' = [pc EXCEPT ![p] = NextListPc(l)]
    /\ obs' = [obs EXCEPT ![p].at_query =
                  {[_id |-> m._id, vacancy_id |-> m.vacancy_id,
                    porcentaje_match |-> m.porcentaje_match] : m \in matches}]
    /\ UNCHANGED <<vacancies, students, matches, served, quota, ticks, changes,
                   req, done, stable, lowest>>

\* a listing that stores the viewed record as a new document
ListCopyViewed(p) ==
    /\ pc[p] = "list_mark"
    /\ LET match == loc[p].match_list[loc[p].i]
       IN  matches' = matches \cup
               {[match EXCEPT !._id = <<utcnow, p, Cardinality(matches)>>,
                              !.visto_por_empresa = TRUE,
                              !.fecha_visto = utcnow]}
    /\ pc' = [pc EXCEPT ![p] = "list_student"]
    /\ obs' = [obs EXCEPT ![p].wrote = TRUE]
    /\ UNCHANGED <<vacancies, students, served, quota, ticks, changes,
                   req, loc, done, stable, lowest>>

\* a listing whose update also stamps the record's creation time
ListMarkTouched(p) ==
    /\ pc[p] = "list_mark"
    /\ LET match == loc[p].match_list[loc[p].i]
       IN  matches' = {IF m._id = match._id
                       THEN [m EXCEPT !.visto_por_empresa = TRUE,
                                      !.fecha_visto = utcnow,
                                      !.fecha_match = utcnow]
                       ELSE m : m \in matches}
    /\ pc' = [pc EXCEPT ![p] = "list_student"]
    /\ obs' = [obs EXCEPT ![p].wrote = TRUE]
    /\ UNCHANGED <<vacancies, students, served, quota, ticks, changes,
                   req, loc, done, stable, lowest>>

\* await matches_coll.update_one({"_id": match["_id"]}, {"$set": {...}})
ListMarkViewed(p) ==
    /\ pc[p] = "list_mark"
    /\ LET match == loc[p].match_list[loc[p].i]
       IN  matches' = {IF m._id = match._id
                       THEN [m EXCEPT !.visto_por_empresa = TRUE,
                                      !.fecha_visto = utcnow]
                       ELSE m : m \in matches}
    /\ pc' = [pc EXCEPT ![p] = "list_student"]
    /\ obs' = [obs EXCEPT ![p].wrote = TRUE]
    /\ UNCHANGED <<vacancies, students, served, quota, ticks, changes,
                   req, loc, done, stable, lowest>>

\* student = await students.find_one(...); if student: append a MatchResponse
ListFindStudent(p) ==
    /\ pc[p] = "list_student"
    /\ LET match == loc[p].match_list[loc[p].i]
           student == FindStudent(match.student_matricula)
           l == [loc[p] EXCEPT
                   !.i = @ + 1,
                   !.matches_response =
                       IF student = NoDoc THEN @
                       ELSE Append(@, [_id |-> match._id,
                                       student_matricula |-> match.student_matricula,
                                       porcentaje_match |-> match.porcentaje_match,
                                       desglose |-> match.desglose,
                                       fecha_match |-> match.fecha_match,
                                       carrera |-> student.carrera,
                                       semestre |-> student.semestre,
                                       radar_chart_data |-> match.radar_chart_data])]
       IN  /\ loc' = [loc EXCEPT ![p] = l]
           /\ pc' = [pc EXCEPT ![p] = NextListPc(l)]
    /\ UNCHANGED <<vacancies, students, matches, served, quota, ticks, changes,
                   req, obs, done, stable, lowest>>

\* total_matches = await matches_coll.count_documents(filters)
ListCount(p) ==
    /\ pc[p] = "list_count"
    /\ Return(p, [status |-> 200, vacancy_id |-> req[p].vacancy_id,
                  total_matches |->
                      Cardinality(Filtered(req[p].vacancy_id, req[p].min)),
                  matches |-> loc[p].matches_response],
              loc[p], obs[p])
    /\ obs' = [obs EXCEPT ![p] = NoObs]
    /\ UNCHANGED <<vacancies, students, matches, served, quota, ticks, changes,
                   stable, lowest>>

(***************************************************************************)
(* DELETE /vacancy/{vacancy_id}/matches                                    *)
(***************************************************************************)
ReceiveReset(p, requests) ==
    /\ FreeSlot(p)
    /\ \E r \in requests :
          IF ~ObjectId_is_valid(r.vacancy_id) THEN Refuse(p, r, 400)
          ELSE Arrive(p, r, "reset_vacancy") /\ UNCHANGED served

ResetFindVacancy(p) ==
    /\ pc[p] = "reset_vacancy"
    /\ CheckVacancy(p, "reset_delete")

\* a reset whose delete_many has lost its filter
ResetDeleteAll(p) ==
    /\ pc[p] = "reset_delete"
    /\ LET v == req[p].vacancy_id
       IN  /\ matches' = {}
           /\ loc' = [loc EXCEPT ![p].deleted_count = Cardinality(matches)]
           /\ stable' = [stable EXCEPT ![v] = None]
           /\ lowest' = [lowest EXCEPT ![v] =
                            IF \E q \in Procs : /\ req[q].op = "run"
                                                /\ req[q].vacancy_id = v
                                                /\ pc[q] # "idle"
                            THEN Void ELSE None]
           /\ obs' = [Disturbed(p, {v}) EXCEPT ![p].wrote = TRUE]
    /\ pc' = [pc EXCEPT ![p] = "reset_update"]
    /\ UNCHANGED <<vacancies, students, served, quota, ticks, changes, req, done>>

\* result = await matches_coll.delete_many({"vacancy_id": ...})
ResetDelete(p) ==
    /\ pc[p] = "reset_delete"
    /\ LET v == req[p].vacancy_id
       IN  /\ matches' = matches \ MatchesOf(v)
           /\ loc' = [loc EXCEPT ![p].deleted_count = Cardinality(MatchesOf(v))]
           /\ stable' = [stable EXCEPT ![v] = None]
           /\ lowest' = [lowest EXCEPT ![v] =
                            IF \E q \in Procs : /\ req[q].op = "run"
                                                /\ req[q].vacancy_id = v
                                                /\ pc[q] # "idle"
                            THEN Void ELSE None]
           /\ obs' = [Disturbed(p, {v}) EXCEPT ![p].wrote = TRUE]
    /\ pc' = [pc EXCEPT ![p] = "reset_update"]
    /\ UNCHANGED <<vacancies, students, served, quota, ticks, changes, req, done>>

\* await vacancies.update_one(..., {"$set": {"num_candidatos_matched": 0}})
ResetUpdate(p) ==
    /\ pc[p] = "reset_update"
    /\ LET v == req[p].vacancy_id
       IN  vacancies' = IF vacancies[v] = NoDoc THEN vacancies
                        ELSE [vacancies EXCEPT ![v].num_candidatos_matched = 0]
    /\ Return(p, [status |-> 200, matches_deleted |-> loc[p].deleted_count],
              loc[p], obs[p])
    /\ obs' = [obs EXCEPT ![p] = NoObs]
    /\ UNCHANGED <<students, matches, served, quota, ticks, changes, stable, lowest>>

(***************************************************************************)
(* GET /vacancy/{vacancy_id}/match/{match_id}/radar                        *)
(***************************************************************************)
\* a match id that no record has
NoMatchId == <<0, 0, 0>>

\* a match id that ObjectId.is_valid rejects
MalformedId == << >>

RadarRequest(vacancy_id, match_id, company) ==
    [op |-> "radar", vacancy_id |-> vacancy_id, company |-> company, min |-> 0,
     skip |-> 0, limit |-> 0, student_matricula |-> "s0", match_id |-> match_id]

\* the ids of the records in the store, an id of no record and a malformed
\* id, by the owner of v1; the id of a record, by the other company
RadarRequests ==
    {RadarRequest("v1", id, "c1") :
         id \in {m._id : m \in matches} \cup {NoMatchId, MalformedId}}
    \cup {RadarRequest("v1", m._id, "c2") : m \in matches}

StartRadar(p) ==
    /\ FreeSlot(p)
    /\ \E r \in RadarRequests :
          IF r.match_id = MalformedId
          THEN Refuse(p, r, 400)     \* ObjectId.is_valid(match_id) fails
          ELSE /\ served + Pending < quota
               /\ Arrive(p, r, "radar_match")
               /\ served' = served + 1

\* match = await matches_coll.find_one({"_id": ObjectId(match_id)})
RadarFindMatch(p) ==
    /\ pc[p] = "radar_match"
    /\ LET found == {m \in matches : m._id = req[p].match_id}
           o == [obs[p] EXCEPT !.touched = TRUE]
       IN  IF found = {}
           THEN Raise(p, 404, o)
           ELSE /\ \E match \in found : loc' = [loc EXCEPT ![p].match_doc = match]
                /\ pc' = [pc EXCEPT ![p] = "radar_vacancy"]
                /\ obs' = [obs EXCEPT ![p] = o]
                /\ UNCHANGED <<req, done>>
    /\ UNCHANGED <<vacancies, students, matches, served, quota, ticks, changes,
                   stable, lowest>>

\* categories, valores_requeridos and valores_candidato, in tenths
RadarChartData(match) ==
    LET desglose == match.desglose
    IN  [status |-> 200,
         categories |-> categories,
         valores_requeridos |-> <<1000, 1000, 1000, 1000, 1000, 1000, 1000>>,
         valores_candidato |->
             <<RadarValue(desglose.habilidades_tecnicas),
               RadarValue(desglose.habilidades_blandas),
               RadarValue(desglose.idiomas),
               RadarValue(desglose.experiencia),
               RadarValue(desglose.carrera),
               RadarValue(desglose.semestre),
               RadarValue(desglose.modalidad)>>]

\* vacancy = await vacancies.find_one({"_id": match["vacancy_id"]}), the
\* ownership check and the response
RadarFindVacancy(p) ==
    /\ pc[p] = "radar_vacancy"
    /\ LET vacancy == FindVacancy(loc[p].match_doc.vacancy_id)
       IN  IF vacancy = NoDoc
           THEN Raise(p, 500, obs[p])     \* vacancy["company_id"] of None
           ELSE IF vacancy.company_id # req[p].company
           THEN Raise(p, 403, obs[p])
           ELSE /\ Return(p, RadarChartData(loc[p].match_doc), loc[p], obs[p])
                /\ obs' = [obs EXCEPT ![p] = NoObs]
    /\ UNCHANGED <<vacancies, students, matches, served, quota, ticks, changes,
                   stable, lowest>>

(***************************************************************************)
(* Students and companies change what bulk matching reads.  Each of these  *)
(* handlers makes one write; its reads only decide whether it is made.     *)
(***************************************************************************)
\* the clock advances between two steps
Tick ==
    /\ ticks < MaxTicks
    /\ ticks' = ticks + 1
    /\ UNCHANGED <<vacancies, students, matches, served, quota, changes,
                   pc, req, loc, obs, done, stable, lowest>>

\* every running bulk run is disturbed and no vacancy stays stable
Changed ==
    /\ changes < MaxChanges
    /\ changes' = changes + 1
    /\ stable' = [v \in VacancyIds |-> None]
    /\ lowest' = [v \in VacancyIds |-> Void]
    /\ obs' = Disturbed(0, VacancyIds)
    /\ UNCHANGED <<matches, served, quota, ticks, pc, req, loc,
                   done>>

\* PATCH /students/profile/visibility, by s3, with the value the profile
\* does not have
toggle_visibility ==
    /\ \E visible \in BOOLEAN :
          /\ students["s3"] # NoDoc
          /\ students["s3"].visible_empresas # visible
          /\ students' = [students EXCEPT !["s3"].visible_empresas = visible]
    /\ Changed
    /\ UNCHANGED vacancies

\* POST /students/profile/experiencia, by s3
add_experiencia ==
    /\ students["s3"] # NoDoc
    /\ students' = [students EXCEPT !["s3"].experiencia_laboral = @ + 1]
    /\ Changed
    /\ UNCHANGED vacancies

\* DELETE /students/profile, by s2
delete_my_profile ==
    /\ students["s2"] # NoDoc
    /\ students' = [students EXCEPT !["s2"] = NoDoc]
    /\ Changed
    /\ UNCHANGED vacancies

\* DELETE /vacancies/{vacancy_id}, by the company that owns v1
delete_vacancy ==
    /\ vacancies["v1"] # NoDoc
    /\ vacancies' = [vacancies EXCEPT !["v1"] = NoDoc]
    /\ Changed
    /\ UNCHANGED students

(***************************************************************************)
(* Specifications                                                          *)
(***************************************************************************)
\* the bulk run, with perform_matching
NextRun ==
    \/ \E p \in Procs : ReceiveRun(p, RunRequests)
    \/ \E p \in Procs : RunFindVacancy(p)
    \/ \E p \in Procs : RunFindStudents(p)
    \/ \E p \in Procs : RunFindExisting(p)
    \/ \E p \in Procs : PerformMatchingVacancy(p)
    \/ \E p \in Procs : PerformMatchingStudent(p)
    \/ \E p \in Procs : RunInsert(p)
    \/ \E p \in Procs : RunUpdateCount(p)

\* the listing
NextList ==
    \/ \E p \in Procs : ReceiveList(p, ListRequests)
    \/ \E p \in Procs : ListFindVacancy(p)
    \/ \E p \in Procs : ListQuery(p)
    \/ \E p \in Procs : ListMarkViewed(p)
    \/ \E p \in Procs : ListFindStudent(p)
    \/ \E p \in Procs : ListCount(p)

\* the reset
NextReset ==
    \/ \E p \in Procs : ReceiveReset(p, ResetRequests)
    \/ \E p \in Procs : ResetFindVacancy(p)
    \/ \E p \in Procs : ResetDelete(p)
    \/ \E p \in Procs : ResetUpdate(p)

Next ==
    \/ NextRun
    \/ NextList
    \/ NextReset
    \/ \E p \in Procs : ReceiveCalc(p, CalcRequests)

\* the requests of owners on their vacancies, interleaved with each other
Spec == Init /\ [][Next]_vars

\* bulk runs among requests that a check refuses: the malformed and the
\* out-of-range ones, and those for no vacancy or another company's
NextErr ==
    \/ NextRun
    \/ \E p \in Procs : ReceiveRun(p, RunErrRequests)
    \/ \E p \in Procs : ReceiveList(p, ListErrRequests)
    \/ \E p \in Procs : ListFindVacancy(p)
    \/ \E p \in Procs : ReceiveReset(p, ResetErrRequests)
    \/ \E p \in Procs : ResetFindVacancy(p)
    \/ \E p \in Procs : ReceiveCalc(p, CalcErrRequests)

SpecErr == InitErr /\ [][NextErr]_vars

\* bulk runs while students and companies change what bulk matching reads
NextEnv ==
    \/ NextRun
    \/ toggle_visibility
    \/ add_experiencia
    \/ delete_my_profile
    \/ delete_vacancy

SpecEnv == InitEnv /\ [][NextEnv]_vars

\* single evaluations of present and absent documents, while students
\* delete their profiles and companies their vacancies
NextCalc ==
    \/ \E p \in Procs : ReceiveCalc(p, CalcAnyRequests)
    \/ \E p \in Procs : PerformMatchingVacancy(p)
    \/ \E p \in Procs : PerformMatchingStudent(p)
    \/ delete_my_profile
    \/ delete_vacancy

SpecCalc == InitCalc /\ [][NextCalc]_vars

\* the radar data of one record
NextRadar ==
    \/ \E p \in Procs : StartRadar(p)
    \/ \E p \in Procs : RadarFindMatch(p)
    \/ \E p \in Procs : RadarFindVacancy(p)

\* every operation on a store that a bulk run has filled
NextStore ==
    \/ NextRun
    \/ NextList
    \/ NextReset
    \/ NextRadar
    \/ \E p \in Procs : ReceiveCalc(p, CalcAnyRequests)

SpecStore == InitStore /\ [][NextStore]_vars

\* every operation on a store that a bulk run has filled, while a student
\* adds experience to the profile and a company deletes its vacancy
NextDrift ==
    \/ NextRun
    \/ NextList
    \/ NextReset
    \/ NextRadar
    \/ \E p \in Procs : ReceiveCalc(p, CalcRequests)
    \/ add_experiencia
    \/ delete_vacancy

SpecDrift == InitDrift /\ [][NextDrift]_vars

\* the evaluation of a pair of documents
NextScore == \E p \in Procs : PerformMatchingScore(p)

SpecScore == InitScore /\ [][NextScore]_vars

\* the evaluation of a pair of documents that differ from the base
\* documents on one dimension
SpecFactor == InitFactor /\ [][NextScore]_vars

\* bulk runs while a student deletes the profile and a company its vacancy:
\* the evaluator then finds a document missing
NextFail ==
    \/ NextRun
    \/ delete_my_profile
    \/ delete_vacancy

SpecFail == InitFail /\ [][NextFail]_vars

\* resets and bulk runs of v1 on a store that holds records of v1 and of v2
NextResetRun ==
    \/ NextReset
    \/ NextRun

SpecReset == InitReset /\ [][NextResetRun]_vars

\* bulk runs while every profile is hidden or incomplete, until s3 makes
\* its profile visible
NextHidden ==
    \/ NextRun
    \/ toggle_visibility

SpecHidden == InitHidden /\ [][NextHidden]_vars

\* listings of a store that bulk runs have filled, while the clock advances
NextListAny ==
    \/ \E p \in Procs : ReceiveList(p, ListAnyRequests)
    \/ \E p \in Procs : ListFindVacancy(p)
    \/ \E p \in Procs : ListQuery(p)
    \/ \E p \in Procs : ListMarkViewed(p)
    \/ \E p \in Procs : ListFindStudent(p)
    \/ \E p \in Procs : ListCount(p)
    \/ Tick

SpecList == InitList /\ [][NextListAny]_vars

(***************************************************************************)
(* Properties                                                              *)
(***************************************************************************)
\* the last returned request was a bulk run
RunReturned == done.req.op = "run"

C2_SecondRunCreatesNothing ==
    (/\ RunReturned
     /\ done.obs.clean
     /\ done.obs.after = done.req.min)
    => /\ done.resp.status = 200
       /\ done.resp.matches_created = 0
       /\ done.obs.created = {}
       /\ done.obs.at_end = done.obs.before

\* a second run of the vacancy at the same threshold returned, the records
\* of the first run in the store
C2_Witness ==
    /\ RunReturned
    /\ done.obs.clean
    /\ done.obs.after = done.req.min
    /\ done.resp.status = 200
    /\ done.obs.before # {}
    /\ done.obs.at_end = done.obs.before

\* C3 (as the specification states it): a bulk run whose insert met the
\* unique index does not fail: it returns its summary.
C3_ConflictIsCaught ==
    (RunReturned /\ done.obs.conflict) => done.resp.status = 200

\* C4 (as the specification states it): a bulk run that could not fetch the
\* profile of a pool member goes on and returns its summary.
C4_FetchFailureDoesNotAbort ==
    (RunReturned /\ done.obs.fetch_failed) => done.resp.status = 200

\* C4: a bulk run that cannot fetch the profile of a pool member at
\* evaluation time ends there with 404: no pool member after that one is
\* evaluated or gets a record, and the vacancy's counter is not written.
C4_FetchFailureAborts ==
    (RunReturned /\ done.obs.fetch_failed)
    => /\ done.resp.status = 404
       /\ ~done.obs.count_written
       /\ \A k \in DOMAIN done.loc.student_list :
             k >= done.loc.i =>
                /\ \A e \in done.obs.evaluated :
                      e.matricula # done.loc.student_list[k]
                /\ \A c \in done.obs.created :
                      c.matricula # done.loc.student_list[k]

\* a profile was deleted after the run loaded its pool: the run got a record
\* in for an earlier pool member and left a later one unprocessed
C4_Witness ==
    /\ RunReturned
    /\ done.obs.fetch_failed
    /\ done.obs.created # {}
    /\ done.loc.i < Len(done.loc.student_list)

\* the pool member whose insert met the unique index, if any
Conflicting(e) ==
    /\ done.obs.conflict
    /\ e.matricula = done.loc.match_doc.student_matricula

\* C5: among the pool members a returned bulk run found no record for and
\* evaluated, exactly those with a percentage >= the threshold got a record
\* from this run (or met the record a concurrent run had just inserted), and
\* every record the run created has a percentage >= the threshold.
C5_CreatedIffAtLeastThreshold ==
    RunReturned =>
       /\ \A e \in done.obs.evaluated :
             (e.porcentaje >= done.req.min)
                <=> (e \in done.obs.created \/ Conflicting(e))
       /\ \A c \in done.obs.created :
             c \in done.obs.evaluated /\ c.porcentaje >= done.req.min

\* a run at threshold 80.0 created the record of the student that scores
\* exactly 80.0 and none for the student that scores 60.0
C5_Witness ==
    /\ RunReturned
    /\ done.req.min = 8000
    /\ [matricula |-> "s2", porcentaje |-> 8000] \in done.obs.created
    /\ [matricula |-> "s3", porcentaje |-> 6000] \in done.obs.evaluated
    /\ \A c \in done.obs.created : c.matricula # "s3"

\* C6: when a bulk run has completed its pass over a non-empty pool, the
\* counter it leaves in the vacancy is the number of records this run
\* created, whatever the counter held before.
C6_CountIsThisRunsCreated ==
    (RunReturned /\ done.obs.count_written)
    => /\ done.obs.new_count = done.resp.matches_created
       /\ done.obs.new_count = Cardinality(done.obs.created)

\* a second run created nothing and wrote 0 over the count of the first,
\* whose records are still in the store
C6_Witness ==
    /\ RunReturned
    /\ done.obs.count_written
    /\ done.obs.old_count > 0
    /\ done.obs.new_count = 0
    /\ vacancies[done.req.vacancy_id].num_candidatos_matched = 0
    /\ MatchesOf(done.req.vacancy_id) # {}

\* C7: an undisturbed bulk run over a pool of n visible and complete
\* students, none of which had a record of the vacancy, reports
\* total_students_evaluated = n and matches_found = matches_created = the
\* number of pool members whose percentage is >= the threshold; an
\* undisturbed re-run with the same inputs reports matches_created = 0.
C7_Summary ==
    /\ (/\ RunReturned
        /\ done.obs.clean
        /\ done.obs.fresh
        /\ done.obs.pool_size > 0)
       => /\ done.resp.status = 200
          /\ done.resp.total_students_evaluated = done.obs.pool_size
          /\ done.resp.matches_found = done.obs.expected
          /\ done.resp.matches_created = done.obs.expected
          /\ Cardinality(done.obs.created) = done.obs.expected
    /\ (/\ RunReturned
        /\ done.obs.clean
        /\ done.obs.pool_size > 0
        /\ done.obs.after = done.req.min)
       => /\ done.resp.status = 200
          /\ done.resp.total_students_evaluated = done.obs.pool_size
          /\ done.resp.matches_created = 0

\* three eligible students, threshold 80.0, two of them at 80.0 or more:
\* the summary reads 3, 2, 2
C7_Witness ==
    /\ RunReturned
    /\ done.obs.clean
    /\ done.obs.fresh
    /\ done.req.min = 8000
    /\ done.resp.status = 200
    /\ done.resp.total_students_evaluated = 3
    /\ done.resp.matches_found = 2
    /\ done.resp.matches_created = 2

\* C8 (as the specification states it): the total_students_evaluated of a
\* bulk run's summary is the number of pool members the run evaluated; a
\* student skipped because the pair has a record is not counted.
C8_EvaluatedCountsEvaluations ==
    (RunReturned /\ done.resp.status = 200)
    => done.resp.total_students_evaluated = Cardinality(done.obs.evaluated)

\* the vacancy lookup of the handler in slot p is about to find this
FailsCheck(p, seen) ==
    /\ pc[p] \in {"run_vacancy", "list_vacancy", "reset_vacancy"}
    /\ pc'[p] # pc[p]
    /\ VacSeen(req[p].vacancy_id, req[p].company) = seen

\* the handler in slot p returns this status and the step writes nothing
FailsWith(p, status) ==
    /\ pc'[p] = "idle"
    /\ done'.slot = p
    /\ done'.req = req[p]
    /\ done'.resp = [status |-> status]
    /\ ~done'.obs.wrote
    /\ UNCHANGED <<matches, vacancies, students>>

\* C9: the step in which a run, list or reset handler looks its vacancy up
\* returns 404 when there is no such vacancy and 403 when the vacancy belongs
\* to another company, and in both cases leaves the matches and the vacancies
\* (the counter with them) as they were; the handler has written nothing.
C9_NotFoundThenForbidden ==
    [][\A p \in Procs :
          /\ FailsCheck(p, "absent") => FailsWith(p, 404)
          /\ FailsCheck(p, "foreign") => FailsWith(p, 403)]_vars

\* another company asked to reset a vacancy that has records: 403, and the
\* records are there
C9_Witness ==
    /\ done.req.op = "reset"
    /\ done.obs.vac_seen = "foreign"
    /\ done.resp.status = 403
    /\ MatchesOf(done.req.vacancy_id) # {}

\* C10 (as the specification states it): single evaluation, bulk run and
\* listing answer a malformed vacancy identifier or a threshold outside
\* [0, 100] with an invalid-argument status (400 or 422) before they touch a
\* collection.
C10_InvalidArgumentFirst ==
    (/\ done.req.op \in {"calc", "run", "list"}
     /\ \/ ~ObjectId_is_valid(done.req.vacancy_id)
        \/ (done.req.op # "calc" /\ ~InRange(done.req.min)))
    => /\ done.resp.status \in {400, 422}
       /\ ~done.obs.touched


(***************************************************************************)
(* C11: the evaluator is all-or-nothing.  A single evaluation whose        *)
(* vacancy or student was not in its collection when perform_matching      *)
(* looked it up answers 404 and nothing else, no factor of the side that   *)
(* was found; when both were found it answers with all seven factors.      *)
(***************************************************************************)
StudentStored(matricula) ==
    matricula \in Matriculas /\ students[matricula] # NoDoc

C11_AllOrNothing ==
    [][\A p \in Procs :
          (pc[p] = "pm_student" /\ req[p].op = "calc" /\ pc'[p] = "idle") =>
              /\ done'.slot = p
              /\ IF obs[p].vacancy_found /\ StudentStored(req[p].student_matricula)
                 THEN /\ done'.resp.status = 200
                      /\ DOMAIN done'.resp.desglose =
                             {Fields[k] : k \in 1..Len(Fields)}
                      /\ Len(Fields) = 7
                 ELSE done'.resp = [status |-> 404]]_vars

\* a single evaluation found the vacancy, not the student, and answered 404
C11_Witness ==
    /\ done.req.op = "calc"
    /\ done.req.vacancy_id = "v1"
    /\ done.req.student_matricula = "s0"
    /\ done.obs.vacancy_found
    /\ done.resp = [status |-> 404]


(***************************************************************************)
(* C12: records are created only by the bulk run.  Every step that adds a  *)
(* record to the matches collection is the insert of a bulk run; no step   *)
(* of a listing, a radar request or a reset adds one, and no step of a     *)
(* single evaluation, whatever it answers, changes the matches collection  *)
(* or the vacancies collection with the cached counter.                    *)
(***************************************************************************)
Ids(ms) == {m._id : m \in ms}

SameButViewed(m, n) ==
    /\ n._id = m._id
    /\ n.vacancy_id = m.vacancy_id
    /\ n.student_matricula = m.student_matricula
    /\ n.porcentaje_match = m.porcentaje_match
    /\ n.desglose = m.desglose
    /\ n.radar_chart_data = m.radar_chart_data
    /\ n.fecha_match = m.fecha_match

C13_RecordsImmutable ==
    [][\A m \in matches :
          \/ \E n \in matches' : SameButViewed(m, n)
          \/ \E p \in Procs : /\ req[p].op = "reset"
                               /\ req[p].vacancy_id = m.vacancy_id
                               /\ pc[p] = "reset_delete"
                               /\ pc'[p] # pc[p]]_vars

\* s3 added experience after a bulk run had scored it 60.00; the run went
\* on and returned, and the record still says 60.00 though the profile now
\* scores 65.00
C13_Witness ==
    /\ done.req.op = "run"
    /\ done.resp.status = 200
    /\ ~done.obs.clean
    /\ students["s3"].experiencia_laboral = 2
    /\ vacancies["v1"] # NoDoc
    /\ ScoreNow("v1", "s3") = 6500
    /\ \E m \in matches : /\ m.student_matricula = "s3"
                           /\ m.porcentaje_match = 6000


(***************************************************************************)
(* C14: a record is viewed once.  A record is created unviewed; once its   *)
(* viewed flag is true, no step sets it back to false and no step changes  *)
(* its viewed timestamp: later listings leave the first value.             *)
(***************************************************************************)
C14_ViewedOnce ==
    [][\A m \in matches : \A n \in matches' :
          (n._id = m._id /\ m.visto_por_empresa) =>
              /\ n.visto_por_empresa
              /\ n.fecha_visto = m.fecha_visto]_vars


(***************************************************************************)
(* C15: the listing filters, orders and pages.  A listing that answered    *)
(* returns only records that were, when it queried the collection, records *)
(* of its vacancy with a percentage >= min_percentage; they come in        *)
(* non-increasing order of percentage, none twice, after the first `skip`  *)
(* records of that order, and there are at most `limit` of them, as many   *)
(* as the filter and the offset leave.                                     *)
(***************************************************************************)
ListReturned == done.req.op = "list" /\ done.resp.status = 200

\* the records the listing could choose from
Listable ==
    {m \in done.obs.at_query : /\ m.vacancy_id = done.req.vacancy_id
                               /\ m.porcentaje_match >= done.req.min}

Above(pct) == Cardinality({m \in Listable : m.porcentaje_match > pct})

AtLeast(pct) == Cardinality({m \in Listable : m.porcentaje_match >= pct})

C15_FilterOrderPage ==
    ListReturned =>
        LET out == done.resp.matches
            rest == IF Cardinality(Listable) > done.req.skip
                    THEN Cardinality(Listable) - done.req.skip ELSE 0
        IN  /\ \A k \in 1..Len(out) :
                  \E m \in Listable : /\ m._id = out[k]._id
                                      /\ m.porcentaje_match = out[k].porcentaje_match
            /\ \A k \in 1..(Len(out) - 1) :
                  out[k].porcentaje_match >= out[k + 1].porcentaje_match
            /\ \A j, k \in 1..Len(out) : j # k => out[j]._id # out[k]._id
            /\ \A k \in 1..Len(out) :
                  /\ Above(out[k].porcentaje_match) <= done.req.skip + k - 1
                  /\ AtLeast(out[k].porcentaje_match) >= done.req.skip + k
            /\ Len(out) <= done.req.limit
            /\ Len(out) = IF rest < done.req.limit THEN rest ELSE done.req.limit

\* a listing with the offset 1 and room for more returned the record of s2
\* (80.00) alone, after skipping that of s1 (100.00)
C15_Witness ==
    /\ ListReturned
    /\ done.req.skip = 1
    /\ done.req.min = 0
    /\ done.req.limit = 50
    /\ Len(done.resp.matches) = 1
    /\ done.resp.matches[1].student_matricula = "s2"


(***************************************************************************)
(* C16: a bulk run creates records only for students of its pool.  Every   *)
(* record a bulk run has inserted, while it runs and when it has returned, *)
(* is for a student that was visible and had a complete profile when the   *)
(* run loaded its pool; a student hidden or incomplete at that moment gets *)
(* none from that run, whatever the score.                                 *)
(***************************************************************************)
CreatedInPool(o) == \A e \in o.created : e.matricula \in o.pool

C16_OnlyPoolGetsRecords ==
    /\ \A p \in Procs : req[p].op = "run" => CreatedInPool(obs[p])
    /\ RunReturned => CreatedInPool(done.obs)

\* s3 was hidden when a bulk run with the threshold 60 loaded its pool and
\* s4 was incomplete: the run returned with records for s1 and s2 alone,
\* though s3 scores 60.00
C16_Witness ==
    /\ RunReturned
    /\ done.req.min = 6000
    /\ done.resp.status = 200
    /\ done.obs.pool = {"s1", "s2"}
    /\ {e.matricula : e \in done.obs.created} = {"s1", "s2"}
    /\ students["s3"] # NoDoc /\ ~students["s3"].visible_empresas
    /\ vacancies["v1"] # NoDoc
    /\ ScoreNow("v1", "s3") >= 6000
    /\ ScoreNow("v1", "s4") >= 6000


(***************************************************************************)
(* C17: an empty pool gives a zero summary.  A bulk run on an existing     *)
(* vacancy of its company that found no visible and complete student when  *)
(* it loaded its pool answers 200 with 0 students evaluated and 0 matches  *)
(* found, and has inserted no record and written nothing.                  *)
(***************************************************************************)
EmptyPoolRun ==
    /\ RunReturned
    /\ done.obs.vac_seen = "own"
    /\ done.obs.pool_size = 0

C17_EmptyPoolZeroSummary ==
    EmptyPoolRun =>
        /\ done.resp.status = 200
        /\ done.resp.total_students_evaluated = 0
        /\ done.resp.matches_found = 0
        /\ done.obs.created = {}
        /\ ~done.obs.wrote

\* a bulk run found every profile hidden or incomplete and returned
C17_Witness ==
    /\ EmptyPoolRun
    /\ done.resp.status = 200
    /\ matches = {}
    /\ \A s \in Matriculas :
           ~(students[s].visible_empresas /\ students[s].perfil_completo)


Scored == done.req.op = "score"

C19_NoRequirementFullScore ==
    Scored =>
        LET vacancy == done.loc.vacancy
            desglose == done.resp.desglose
        IN  /\ done.resp.status = 200
            /\ vacancy.habilidades_tecnicas_requeridas = << >> =>
                   desglose.habilidades_tecnicas = One
            /\ vacancy.habilidades_blandas_requeridas = << >> =>
                   desglose.habilidades_blandas = One
            /\ vacancy.idiomas_requeridos = << >> => desglose.idiomas = One
            /\ vacancy.experiencia_minima = "Sin experiencia" =>
                   desglose.experiencia = One
            /\ vacancy.carrera_requerida = << >> => desglose.carrera = One
            /\ vacancy.semestre_minimo \in {0, None} => desglose.semestre = One
            /\ vacancy.modalidad = << >> => desglose.modalidad = One

\* a vacancy that asks for nothing but has no minimum semester, and a
\* student with nothing on any dimension: seven factors of 1.0
C19_Witness ==
    /\ Scored
    /\ done.loc.vacancy.habilidades_tecnicas_requeridas = << >>
    /\ done.loc.vacancy.habilidades_blandas_requeridas = << >>
    /\ done.loc.vacancy.idiomas_requeridos = << >>
    /\ done.loc.vacancy.experiencia_minima = "Sin experiencia"
    /\ done.loc.vacancy.carrera_requerida = << >>
    /\ done.loc.vacancy.semestre_minimo = None
    /\ done.loc.vacancy.modalidad = << >>
    /\ done.loc.student.habilidades_tecnicas = << >>
    /\ done.loc.student.idiomas = << >>
    /\ done.loc.student.experiencia_laboral = 0
    /\ done.loc.student.carrera = << >>
    /\ done.loc.student.semestre = 0
    /\ done.loc.student.modalidad_preferida = << >>
    /\ \A k \in DOMAIN Fields : done.resp.desglose[Fields[k]] = One

(***************************************************************************)
(* C20: scores stay in range.  For every pair of documents, required lists *)
(* with an entry twice and unknown tiers and levels included, the          *)
(* evaluation answers, each of the seven factors is between 0 and 1 and    *)
(* the percentage between 0 and 100.                                       *)
(***************************************************************************)
C20_ScoresInRange ==
    Scored =>
        /\ done.resp.status = 200
        /\ \A k \in DOMAIN Fields :
               /\ done.resp.desglose[Fields[k]] >= 0
               /\ done.resp.desglose[Fields[k]] <= One
        /\ done.resp.porcentaje_match >= 0
        /\ done.resp.porcentaje_match <= 10000

\* a language required twice, a tier the mapping does not know and a
\* student who entered the language twice: the language factor is 1.0
C20_Witness ==
    /\ Scored
    /\ Len(done.loc.vacancy.idiomas_requeridos) = 2
    /\ done.loc.vacancy.experiencia_minima = "otro"
    /\ done.loc.vacancy.habilidades_tecnicas_requeridas = <<Python, Python>>
    /\ Len(done.loc.student.idiomas) = 2
    /\ done.resp.status = 200
    /\ done.resp.desglose.idiomas = One

(***************************************************************************)
(* C21: the weighted-sum identity.  The percentage of every record in the  *)
(* matches collection and of every answer of a single evaluation is        *)
(* round(sum of weight * factor * 100, 2) over the breakdown stored or     *)
(* answered with it, with the weights 0.30 for the technical skills, 0.15  *)
(* for the soft skills, the languages, the experience and the career and   *)
(* 0.05 for the semester and the modality; the weights sum to 1.0 and      *)
(* seven factors of 1.0 give exactly 100.                                  *)
(***************************************************************************)
\* the weights as the specification lists them, in hundredths
ListedWeights == <<30, 15, 15, 15, 15, 5, 5>>

RECURSIVE ListedSum(_, _)
ListedSum(desglose, k) ==
    IF k = 0 THEN 0
    ELSE ListedSum(desglose, k - 1) + ListedWeights[k] * desglose[Fields[k]]

\* round(sum * 100, 2), in hundredths of a percent
ListedOverall(desglose) == RoundHalfEven(ListedSum(desglose, 7) * 100, Scale)

AllOnes(desglose) == \A k \in DOMAIN Fields : desglose[Fields[k]] = One

C21_WeightedSumIdentity ==
    /\ ListedWeights[1] + ListedWeights[2] + ListedWeights[3] + ListedWeights[4]
           + ListedWeights[5] + ListedWeights[6] + ListedWeights[7] = 100
    /\ \A m \in matches :
           /\ m.porcentaje_match = ListedOverall(m.desglose)
           /\ AllOnes(m.desglose) => m.porcentaje_match = 10000
    /\ (done.req.op \in {"calc", "score"} /\ done.resp.status = 200) =>
           done.resp.porcentaje_match = ListedOverall(done.resp.desglose)

\* a bulk run has stored the records of s1 (seven factors of 1.0) and of s2
\* (half of the technical skills, a career worth 0.7: 80.00) and a single
\* evaluation of s2 has answered
C21_Witness ==
    /\ \E m \in matches : AllOnes(m.desglose) /\ m.porcentaje_match = 10000
    /\ \E m \in matches :
           /\ m.desglose.habilidades_tecnicas = Ratio(1, 2)
           /\ m.desglose.habilidades_blandas = One
           /\ m.desglose.carrera = Tenths(7)
           /\ m.porcentaje_match = 8000
    /\ done.req.op = "calc"
    /\ done.resp.status = 200
    /\ done.resp.porcentaje_match = 8000

(***************************************************************************)
(* C22: the radar projection.  In every record of the matches collection,  *)
(* in every answer of a single evaluation and in every answer of the radar *)
(* handler, the value under each of the seven labels is the factor of the  *)
(* same breakdown that the label stands for, times 100 and rounded to one  *)
(* decimal, the labels in their fixed order; the radar handler's required  *)
(* values are seven times 100.                                             *)
(***************************************************************************)
\* the seven labels in their order
ListedLabels ==
    <<"Habilidades Tecnicas", "Habilidades Blandas", "Idiomas", "Experiencia",
      "Carrera", "Semestre", "Modalidad">>

\* factor * 100 rounded to one decimal, in tenths of a percent
OneDecimal(score) == RoundHalfEven(score * 1000, Scale)

\* the dict has the seven labels and under each the projection of its factor
Projects(radar_data, desglose) ==
    /\ DOMAIN radar_data = {ListedLabels[k] : k \in 1..7}
    /\ \A k \in 1..7 : radar_data[ListedLabels[k]] = OneDecimal(desglose[Fields[k]])

C22_RadarProjection ==
    /\ \A m \in matches : Projects(m.radar_chart_data, m.desglose)
    /\ (done.req.op = "calc" /\ done.resp.status = 200) =>
           Projects(done.resp.radar_chart_data, done.resp.desglose)
    /\ (done.req.op = "radar" /\ done.resp.status = 200) =>
           /\ done.resp.categories = ListedLabels
           /\ done.resp.valores_requeridos = [k \in 1..7 |-> 1000]
           /\ done.resp.valores_candidato =
                  [k \in 1..7 |-> OneDecimal(done.loc.match_doc.desglose[Fields[k]])]

\* the radar handler has answered for the record of s3, whose one entry of
\* experience gives a third of the required years: 33.3
C22_Witness ==
    /\ done.req.op = "radar"
    /\ done.resp.status = 200
    /\ done.loc.match_doc.student_matricula = "s3"
    /\ done.loc.match_doc.desglose.experiencia = Ratio(1, 3)
    /\ done.resp.valores_candidato[4] = 333
    /\ \E m \in matches :
           m._id = done.req.match_id /\ m.radar_chart_data["Experiencia"] = 333

(***************************************************************************)
(* C23: where a factor can be zero.  As stated: a factor is exactly 0 only *)
(* on the technical skills, the soft skills or the languages, and only     *)
(* when the student has no entry at all on that dimension; the experience, *)
(* the career, the semester and the modality are never 0.                  *)
(***************************************************************************)
C23_ZeroOnlyWithoutData ==
    Scored =>
        LET student == done.loc.student
            desglose == done.resp.desglose
        IN  /\ desglose.habilidades_tecnicas = 0 => student.habilidades_tecnicas = << >>
            /\ desglose.habilidades_blandas = 0 => student.habilidades_blandas = << >>
            /\ desglose.idiomas = 0 => student.idiomas = << >>
            /\ desglose.experiencia # 0
            /\ desglose.carrera # 0
            /\ desglose.semestre # 0
            /\ desglose.modalidad # 0

\* no required skill is among the student's skills, whatever the case of
\* the letters
NoSkillMet(student_skills, required_skills) ==
    /\ required_skills # << >>
    /\ \A k \in DOMAIN required_skills :
           ~\E j \in DOMAIN student_skills :
               Lower(required_skills[k]) = Lower(student_skills[j])

\* no required language is among the student's languages at its minimum
\* level or above
NoLanguageMet(student_langs, required_langs) ==
    /\ required_langs # << >>
    /\ \A k \in DOMAIN required_langs :
           ~\E j \in DOMAIN student_langs :
               /\ Lower(required_langs[k].idioma) = Lower(student_langs[j].idioma)
               /\ level_order(student_langs[j].nivel)
                      >= level_order(required_langs[k].nivel_minimo)

\* As amended: a factor is exactly 0 only on the technical skills, the soft
\* skills or the languages, and only when the vacancy requires something on
\* that dimension and the student's entries meet none of it (a student
\* without entries is one such case); the experience, the career, the
\* semester and the modality are never 0.
C23_ZeroOnlyWhenNothingMet ==
    Scored =>
        LET vacancy == done.loc.vacancy
            student == done.loc.student
            desglose == done.resp.desglose
        IN  /\ desglose.habilidades_tecnicas = 0 =>
                   NoSkillMet(student.habilidades_tecnicas,
                              vacancy.habilidades_tecnicas_requeridas)
            /\ desglose.habilidades_blandas = 0 =>
                   NoSkillMet(student.habilidades_blandas,
                              vacancy.habilidades_blandas_requeridas)
            /\ desglose.idiomas = 0 =>
                   NoLanguageMet(student.idiomas, vacancy.idiomas_requeridos)
            /\ desglose.experiencia # 0
            /\ desglose.carrera # 0
            /\ desglose.semestre # 0
            /\ desglose.modalidad # 0

\* English is required at B2 and the student has it at B1: the student has
\* an entry and the factor is 0
C23_Witness ==
    /\ Scored
    /\ done.loc.vacancy.idiomas_requeridos =
           <<[idioma |-> English, nivel_minimo |-> "B2"]>>
    /\ done.loc.student.idiomas = <<[idioma |-> Lower(English), nivel |-> "B1"]>>
    /\ done.resp.desglose.idiomas = 0

(***************************************************************************)
(* C24: bulk runs take no lock.  Two bulk runs of the same vacancy can     *)
(* both pass the existence check for the same student before either        *)
(* inserts; whenever a run then reaches its insert and the record of the   *)
(* pair is already there, the insert meets the unique index: the store     *)
(* rejects it, the collection stays as it was and the run fails with the   *)
(* conflict.  An insert that finds no record of the pair adds exactly one. *)
(***************************************************************************)
\* the collection holds a record of the pair the run is about to insert
PairStored(q) ==
    \E m \in matches :
        /\ m.vacancy_id = loc[q].match_doc.vacancy_id
        /\ m.student_matricula = loc[q].match_doc.student_matricula

C24_LaterInsertMeetsConflict ==
    [][\A q \in Procs :
          (pc[q] = "run_insert" /\ pc'[q] # "run_insert") =>
              IF PairStored(q)
              THEN /\ matches' = matches
                   /\ done'.slot = q
                   /\ done'.resp.status = 500
                   /\ done'.obs.conflict
              ELSE /\ Cardinality(matches') = Cardinality(matches) + 1
                   /\ \E m \in matches' \ matches :
                          /\ m.vacancy_id = loc[q].match_doc.vacancy_id
                          /\ m.student_matricula = loc[q].match_doc.student_matricula
                   /\ matches \subseteq matches']_vars

\* two bulk runs of v1 are going on; one has inserted the record of a
\* student, the other found no record of that student at its existence
\* check and is about to insert its own
C24_Witness ==
    \E p, q \in Procs :
        /\ p # q
        /\ req[p].op = "run"
        /\ req[q].op = "run"
        /\ req[p].vacancy_id = req[q].vacancy_id
        /\ pc[q] = "run_insert"
        /\ PairStored(q)
        /\ \E e \in obs[p].created : e.matricula = loc[q].match_doc.student_matricula

(***************************************************************************)
(* C25: partial progress.  The step in which a bulk run fails (a profile   *)
(* or the vacancy is gone when the evaluator looks for it) writes nothing: *)
(* the records the run created before are all in the collection, with the  *)
(* percentage they were created with, and the run has not written the      *)
(* vacancy's counter.  A bulk run writes the counter in one step only, the *)
(* one after its pass over the whole pool; until then the counter keeps    *)
(* its value.                                                              *)
(***************************************************************************)
C25_FailedRunKeepsProgress ==
    [][\A p \in Procs :
          /\ (req[p].op = "run" /\ pc'[p] # pc[p] /\ pc[p] # "run_update") =>
                 vacancies' = vacancies
          /\ (req[p].op = "run" /\ pc'[p] # pc[p] /\ pc[p] = "run_update") =>
                 loc[p].i = Len(loc[p].student_list)
          /\ (req[p].op = "run" /\ pc[p] # "idle" /\ pc'[p] = "idle"
                 /\ done'.resp.status # 200) =>
                 /\ matches' = matches
                 /\ vacancies' = vacancies
                 /\ ~done'.obs.count_written
                 /\ \A e \in done'.obs.created :
                        \E m \in matches' :
                            /\ m.vacancy_id = req[p].vacancy_id
                            /\ m.student_matricula = e.matricula
                            /\ m.porcentaje_match = e.porcentaje
                            /\ ~m.visto_por_empresa]_vars

\* a bulk run of v1 has failed after it created a record: the record is in
\* the collection and the counter of v1 is still 0
C25_Witness ==
    /\ RunReturned
    /\ done.resp.status = 404
    /\ done.obs.created # {}
    /\ \A e \in done.obs.created :
           \E m \in matches : /\ m.vacancy_id = "v1"
                              /\ m.student_matricula = e.matricula
    /\ vacancies["v1"] # NoDoc
    /\ vacancies["v1"].num_candidatos_matched = 0

(***************************************************************************)
(* C26: the reset.  The delete of a reset of vacancy R by its owner takes  *)
(* every record of R out of the collection and no other record, and counts *)
(* the records it took out; the reset then sets R's counter to 0 and       *)
(* answers with that number.  A bulk run of R that arrives when R has no   *)
(* record, as after a reset, and goes undisturbed evaluates every student  *)
(* of the pool again.                                                      *)
(***************************************************************************)
C26_ResetRemovesOwnRecords ==
    [][/\ \A p \in Procs :
             /\ (pc[p] = "reset_delete" /\ pc'[p] # pc[p]) =>
                    /\ matches' = {m \in matches : m.vacancy_id # req[p].vacancy_id}
                    /\ loc'[p].deleted_count =
                           Cardinality({m \in matches : m.vacancy_id = req[p].vacancy_id})
                    /\ vacancies' = vacancies
             /\ (pc[p] = "reset_update" /\ pc'[p] # pc[p]) =>
                    /\ matches' = matches
                    /\ vacancies'[req[p].vacancy_id].num_candidatos_matched = 0
                    /\ \A v \in VacancyIds :
                           v # req[p].vacancy_id => vacancies'[v] = vacancies[v]
                    /\ done'.slot = p
                    /\ done'.resp.status = 200
                    /\ done'.resp.matches_deleted = loc[p].deleted_count
       /\ (/\ done'.req.op = "run"
           /\ done'.resp.status = 200
           /\ done'.obs.before = {}
           /\ done'.obs.clean) =>
              /\ {e.matricula : e \in done'.obs.evaluated} = done'.obs.pool
              /\ done'.resp.total_students_evaluated = Cardinality(done'.obs.pool)]_vars

\* the store held two records of v1 and three of v2; after a reset of v1 a
\* bulk run at 60 has evaluated s1, s2 and s3 again and created their
\* records, and the three records of v2 are still there
C26_Witness ==
    /\ done.req.op = "run"
    /\ done.req.min = 6000
    /\ done.resp.status = 200
    /\ done.obs.before = {}
    /\ done.obs.clean
    /\ Cardinality(done.obs.evaluated) = 3
    /\ done.resp.matches_created = 3
    /\ Cardinality({m \in matches : m.vacancy_id = "v2"}) = 3
    /\ {m.student_matricula : m \in MatchesOf("v1")} = {"s1", "s2", "s3"}

(***************************************************************************)
(* C27: the records after a sequence of bulk runs.  While the profiles and *)
(* the vacancy stay as they are and every bulk run of the vacancy since it *)
(* had no record has completed, one after the other or overlapping, with   *)
(* no reset in between, then, whenever no bulk run of the vacancy is going *)
(* on, the students with a record of the vacancy are exactly the visible,  *)
(* complete students whose percentage is at least the lowest threshold of  *)
(* those runs (none before the first run).  An undisturbed run takes no    *)
(* record out, and the records it adds are of students who reach its       *)
(* threshold and had none.                                                 *)
(***************************************************************************)
RunsGoing(v) ==
    \E p \in Procs : req[p].op = "run" /\ req[p].vacancy_id = v /\ pc[p] # "idle"

MatchedStudents(v) == {m.student_matricula : m \in MatchesOf(v)}

C27_RecordsAtLeastLowestThreshold ==
    /\ \A v \in VacancyIds :
           (vacancies[v] # NoDoc /\ ~RunsGoing(v)) =>
               /\ lowest[v] = None => MatchesOf(v) = {}
               /\ lowest[v] >= 0 =>
                      MatchedStudents(v) =
                          {s \in Matriculas : /\ Eligible(students[s])
                                              /\ ScoreNow(v, s) >= lowest[v]}
    /\ (RunReturned /\ done.resp.status = 200 /\ done.obs.clean) =>
           /\ done.obs.before \subseteq done.obs.at_end
           /\ \A e \in done.obs.created :
                  /\ e.porcentaje >= done.req.min
                  /\ \A m \in done.obs.before : m.student_matricula # e.matricula

\* a bulk run at 80 and then one at 60 have completed: the second added the
\* record of s3 (60.00) to those of s1 and s2 and took none out
C27_Witness ==
    /\ lowest["v1"] = 6000
    /\ ~RunsGoing("v1")
    /\ RunReturned
    /\ done.req.min = 6000
    /\ done.resp.status = 200
    /\ {m.student_matricula : m \in done.obs.before} = {"s1", "s2"}
    /\ {e.matricula : e \in done.obs.created} = {"s3"}
    /\ MatchedStudents("v1") = {"s1", "s2", "s3"}

(***************************************************************************)
(* C28: the experience factor.  The six tiers stand for 0, 0.5, 1.5, 2.5,  *)
(* 4 and 6 years and the student's years are half the number of entries of *)
(* experience.  The factor is 1.0 if the tier stands for 0 years or the    *)
(* student's years reach the tier's, the student's years over the tier's   *)
(* if they are above 0 and below the tier's, and 0.5 if the student has no *)
(* entry.                                                                  *)
(***************************************************************************)
ListedTiers ==
    <<"Sin experiencia", "Menos de 1 ano", "1-2 anos", "2-3 anos", "3-5 anos",
      "Mas de 5 anos">>

\* the years of each tier, doubled
ListedHalfYears == <<0, 1, 3, 5, 8, 12>>

C28_ExperienceFactor ==
    Scored =>
        \A t \in 1..6 :
            done.loc.vacancy.experiencia_minima = ListedTiers[t] =>
                LET required == ListedHalfYears[t]
                    years == done.loc.student.experiencia_laboral
                    score == done.resp.desglose.experiencia
                IN  IF required = 0 \/ years >= required THEN score = One
                    ELSE IF years > 0 THEN score * required = years * One
                    ELSE 2 * score = One

\* the tier of 3 to 5 years (4 years) and three entries (1.5 years): 0.375
C28_Witness ==
    /\ Scored
    /\ done.loc.vacancy.experiencia_minima = "3-5 anos"
    /\ done.loc.student.experiencia_laboral = 3
    /\ 8 * done.resp.desglose.experiencia = 3 * One

(***************************************************************************)
(* C29: the language factor.  When the vacancy requires languages and the  *)
(* student has entered some, all at levels of the scale A1, A2, B1, B2,    *)
(* C1, C2, Nativo, the factor is the number of required entries for which  *)
(* the student has an entry of the same language, whatever the case of     *)
(* the letters, at the minimum level or above, over the number of required *)
(* entries.  English required at B2: a student with English at B1 gets     *)
(* 0.0, one with English at C1 gets 1.0.                                   *)
(***************************************************************************)
ListedLevels == <<"A1", "A2", "B1", "B2", "C1", "C2", "Nativo">>

OnScale(nivel) == \E n \in 1..7 : ListedLevels[n] = nivel

\* the place of a level on the scale
Rank(nivel) == CHOOSE n \in 1..7 : ListedLevels[n] = nivel

\* the required entries that an entry of the student satisfies
Satisfied(student_langs, required_langs) ==
    {k \in DOMAIN required_langs :
        \E j \in DOMAIN student_langs :
            /\ Lower(student_langs[j].idioma) = Lower(required_langs[k].idioma)
            /\ Rank(student_langs[j].nivel) >= Rank(required_langs[k].nivel_minimo)}

SameSkill(a, b) ==
    /\ Len(a) = Len(b)
    /\ \A i \in 1..Len(a) : LowerChar(a[i]) = LowerChar(b[i])

\* the required skills that the student has
Held(student_skills, required_skills) ==
    {k \in DOMAIN required_skills :
        \E j \in DOMAIN student_skills : SameSkill(required_skills[k], student_skills[j])}

SkillsFactor(score, student_skills, required_skills) ==
    required_skills # << >> =>
        IF student_skills = << >> THEN score = 0
        ELSE score * Len(required_skills) =
                 Cardinality(Held(student_skills, required_skills)) * One

C30_SkillsFactor ==
    Scored =>
        LET vacancy == done.loc.vacancy
            student == done.loc.student
            desglose == done.resp.desglose
        IN  /\ SkillsFactor(desglose.habilidades_tecnicas, student.habilidades_tecnicas,
                            vacancy.habilidades_tecnicas_requeridas)
            /\ SkillsFactor(desglose.habilidades_blandas, student.habilidades_blandas,
                            vacancy.habilidades_blandas_requeridas)
            /\ (/\ vacancy.habilidades_tecnicas_requeridas = <<Python, React>>
                /\ student.habilidades_tecnicas = <<Lower(Python), Django>>) =>
                   2 * desglose.habilidades_tecnicas = One

\* Java is required and the student has entered JavaScript: nothing
C30_Witness ==
    /\ Scored
    /\ done.loc.vacancy.habilidades_tecnicas_requeridas = <<Java, Python, React>>
    /\ done.loc.student.habilidades_tecnicas = <<JavaScript>>
    /\ done.resp.desglose.habilidades_tecnicas = 0

=============================================================================
